---- MODULE Spec2Model ----
(***************************************************************************)
(* Model of the rule-based document analysis of legalsense-ai:             *)
(*   src/lib/analysis.ts        analyzeDocument and its pipeline           *)
(*   src/unnamed/part_000       the sample repository (load-samples)       *)
(*   src/components/upload-panel.tsx   the upload panel's handleProcess    *)
(* JavaScript strings are TLA+ strings; a character is a string of length  *)
(* one, s[i] is SubSeq(s, i, i).  An optional value is <<>> (undefined) or *)
(* <<v>>.                                                                  *)
(***************************************************************************)
EXTENDS Integers, Sequences, FiniteSets, TLC

(***************************************************************************)
(* JavaScript string primitives                                            *)
(***************************************************************************)
None == <<>>
Some(v) == <<v>>

UpperLetters == "ABCDEFGHIJKLMNOPQRSTUVWXYZ"
LowerLetters == "abcdefghijklmnopqrstuvwxyz"
Digits == "0123456789"
\* the characters \s matches that the model's texts can hold
WhiteSpace == " \n\t\r"
\* stands for the one-code-unit character U+2026 (horizontal ellipsis)
Ellipsis == "^"

\* s[i - 1] for the 1-based position i; "" stands for undefined (out of range)
CharAt(s, i) == IF 1 <= i /\ i <= Len(s) THEN SubSeq(s, i, i) ELSE ""

\* the set of the characters of a string
CharsOf(str) == {CharAt(str, i) : i \in 1..Len(str)}

DigitChars == CharsOf(Digits)
SpaceChars == CharsOf(WhiteSpace)
UpperChars == CharsOf(UpperLetters)
AlnumChars == CharsOf(UpperLetters) \cup CharsOf(LowerLetters) \cup CharsOf(Digits)
\* \w of a regular expression
WordChars == AlnumChars \cup {"_"}

IsDigit(c) == c \in DigitChars
IsSpace(c) == c \in SpaceChars
IsAlnum(c) == c \in AlnumChars
IsWordChar(c) == c \in WordChars

\* the lower-case letter of each upper-case letter
LowerOf ==
  [c \in UpperChars |->
     CharAt(LowerLetters, CHOOSE i \in 1..Len(UpperLetters) : CharAt(UpperLetters, i) = c)]

LowerChar(c) == IF c \in UpperChars THEN LowerOf[c] ELSE c

\* s.toLowerCase(), computed by halves
RECURSIVE toLowerCase(_)
toLowerCase(s) ==
  IF Len(s) <= 1 THEN LowerChar(s)
  ELSE LET h == Len(s) \div 2
       IN toLowerCase(SubSeq(s, 1, h)) \o toLowerCase(SubSeq(s, h + 1, Len(s)))

\* the least element of a non-empty set of integers
Min(S) == CHOOSE k \in S : \A m \in S : k <= m

\* s.slice(0, n)
slice0(s, n) == SubSeq(s, 1, IF Len(s) < n THEN Len(s) ELSE n)

\* the term occurs in s at the 1-based position i
StartsAt(s, i, term) == i + Len(term) - 1 <= Len(s) /\ SubSeq(s, i, i + Len(term) - 1) = term

\* s.includes(term)
includes(s, term) == \E i \in 1..(Len(s) - Len(term) + 1) : StartsAt(s, i, term)

\* s.startsWith(term)
startsWith(s, term) == StartsAt(s, 1, term)

RECURSIVE trimStart(_)
trimStart(s) == IF s # "" /\ IsSpace(Head(s)) THEN trimStart(Tail(s)) ELSE s

RECURSIVE trimEnd(_)
trimEnd(s) ==
  IF s # "" /\ IsSpace(CharAt(s, Len(s))) THEN trimEnd(SubSeq(s, 1, Len(s) - 1)) ELSE s

\* s.trim()
trim(s) == trimEnd(trimStart(s))


\* slice keeping the last n elements instead of the first
sliceArr_Last(arr, n) ==
  IF Len(arr) <= n THEN arr ELSE SubSeq(arr, Len(arr) - n + 1, Len(arr))
\* arr.slice(0, n)
sliceArr(arr, n) == SubSeq(arr, 1, IF Len(arr) < n THEN Len(arr) ELSE n)

\* arr.filter(Boolean) on an array of strings: drops the empty strings
RECURSIVE filterNonEmpty(_)
filterNonEmpty(arr) ==
  IF arr = <<>> THEN <<>>
  ELSE IF Head(arr) = "" THEN filterNonEmpty(Tail(arr))
  ELSE <<Head(arr)>> \o filterNonEmpty(Tail(arr))

\* arr.join(sep)
RECURSIVE join(_, _)
join(arr, sep) ==
  IF arr = <<>> THEN ""
  ELSE IF Len(arr) = 1 THEN arr[1]
  ELSE arr[1] \o sep \o join(Tail(arr), sep)

\* the length of the longest run of characters satisfying a class, from position i
RECURSIVE RunOfDigits(_, _)
RunOfDigits(s, i) == IF i <= Len(s) /\ IsDigit(CharAt(s, i)) THEN 1 + RunOfDigits(s, i + 1) ELSE 0

RECURSIVE RunOfSpaces(_, _)
RunOfSpaces(s, i) == IF i <= Len(s) /\ IsSpace(CharAt(s, i)) THEN 1 + RunOfSpaces(s, i + 1) ELSE 0

RECURSIVE RunOfNewlines(_, _)
RunOfNewlines(s, i) == IF i <= Len(s) /\ CharAt(s, i) = "\n" THEN 1 + RunOfNewlines(s, i + 1) ELSE 0

\* a regular expression's \b at the gap before the 1-based position i
WordBoundary(s, i) ==
  LET before == i > 1 /\ IsWordChar(CharAt(s, i - 1))
      after == i <= Len(s) /\ IsWordChar(CharAt(s, i))
  IN before # after

\* the separator of text.split(/\n/)
NewlineLen(s, i) == IF CharAt(s, i) = "\n" THEN 1 ELSE 0

\* the separator of text.split(/\n|\. /)
ObligationSepLen(s, i) ==
  IF CharAt(s, i) = "\n" THEN 1 ELSE IF StartsAt(s, i, ". ") THEN 2 ELSE 0

\* the length of \d+\.\s+ matched at position j, 0 when it does not match
ListMarkerLen(s, j) ==
  LET d == RunOfDigits(s, j)
      w == RunOfSpaces(s, j + d + 1)
  IN IF d >= 1 /\ CharAt(s, j + d) = "." /\ w >= 1 THEN d + 1 + w ELSE 0

\* the separator of text.split(/\n{2,}|(?:^|\n)\d+\.\s+/)
ClauseSepLen(s, i) ==
  IF CharAt(s, i) = "\n" /\ CharAt(s, i + 1) = "\n" THEN RunOfNewlines(s, i)
  ELSE IF i = 1 /\ ListMarkerLen(s, 1) > 0 THEN ListMarkerLen(s, 1)
  ELSE IF CharAt(s, i) = "\n" /\ ListMarkerLen(s, i + 1) > 0 THEN 1 + ListMarkerLen(s, i + 1)
  ELSE 0

\* the length of the match of the separator at position i, 0 when it does not
\* match there (no separator of the program matches the empty string)
SepLen(sep, s, i) ==
  CASE sep = "newline" -> NewlineLen(s, i)
    [] sep = "obligation" -> ObligationSepLen(s, i)
    [] sep = "clause" -> ClauseSepLen(s, i)

\* s.split(sep) from the 1-based position p on; hits are the positions where the
\* separator matches: its leftmost match at or after p ends the current fragment
RECURSIVE SplitFrom(_, _, _, _)
SplitFrom(s, p, sep, hits) ==
  LET ahead == {i \in hits : i >= p}
  IN IF ahead = {} THEN <<SubSeq(s, p, Len(s))>>
     ELSE LET q == Min(ahead)
          IN <<SubSeq(s, p, q - 1)>> \o SplitFrom(s, q + SepLen(sep, s, q), sep, hits)

split(s, sep) == SplitFrom(s, 1, sep, {i \in 1..Len(s) : SepLen(sep, s, i) > 0})

\* /\bword\b/i matches at the 1-based position k (word is given in lower case)
MatchesWordAt(s, k, word) ==
  /\ k + Len(word) - 1 <= Len(s)
  /\ LowerChar(CharAt(s, k)) = CharAt(word, 1)
  /\ toLowerCase(SubSeq(s, k, k + Len(word) - 1)) = word
  /\ WordBoundary(s, k)
  /\ WordBoundary(s, k + Len(word))

\* s.replace(/\bword\b/gi, by) from the position i on; hits are the positions where
\* the pattern matches: every match that does not overlap an earlier one, left to right
RECURSIVE ReplaceFrom(_, _, _, _, _)
ReplaceFrom(s, i, word, by, hits) ==
  LET ahead == {k \in hits : k >= i}
  IN IF ahead = {} THEN SubSeq(s, i, Len(s))
     ELSE LET k == Min(ahead)
          IN SubSeq(s, i, k - 1) \o by \o ReplaceFrom(s, k + Len(word), word, by, hits)

replaceWord(s, word, by) ==
  ReplaceFrom(s, 1, word, by, {k \in 1..Len(s) : MatchesWordAt(s, k, word)})

(***************************************************************************)
(* src/lib/analysis.ts: vocabulary tables                                  *)
(***************************************************************************)
HIGH_RISK_TERMS ==
  <<"penalty", "indemnify", "terminate immediately", "liability", "non-compete",
    "arbitration", "late fee">>
MEDIUM_RISK_TERMS == <<"auto-renew", "exclusive", "confidentiality", "governing law", "jurisdiction">>

\* arr.some((term) => t.includes(term))
someIncluded(t, terms) == \E k \in 1..Len(terms) : includes(t, terms[k])

tokenize(text) == toLowerCase(text)


\* scoreRiskForClause testing the MEDIUM terms before the HIGH ones
scoreRiskForClause_MediumFirst(text) ==
  LET t == tokenize(text)
  IN IF someIncluded(t, MEDIUM_RISK_TERMS) THEN "Medium"
     ELSE IF someIncluded(t, HIGH_RISK_TERMS) THEN "High"
     ELSE "Low"
scoreRiskForClause(text) ==
  LET t == tokenize(text)
  IN IF someIncluded(t, HIGH_RISK_TERMS) THEN "High"
     ELSE IF someIncluded(t, MEDIUM_RISK_TERMS) THEN "Medium"
     ELSE "Low"


\* categorizeClause testing the Termination keywords before the Financial ones
categorizeClause_TerminationFirst(text) ==
  LET t == toLowerCase(text)
  IN IF includes(t, "terminate") \/ includes(t, "termination") THEN "Termination"
     ELSE IF includes(t, "payment") \/ includes(t, "fee") \/ includes(t, "rent") \/ includes(t, "penalty")
       THEN "Financial"
     ELSE IF includes(t, "law") \/ includes(t, "jurisdiction") \/ includes(t, "liability")
             \/ includes(t, "arbitration") THEN "Legal"
     ELSE IF includes(t, "compliance") \/ includes(t, "regulation") \/ includes(t, "confidential")
       THEN "Compliance"
     ELSE "General"
categorizeClause(text) ==
  LET t == toLowerCase(text)
  IN IF includes(t, "payment") \/ includes(t, "fee") \/ includes(t, "rent") \/ includes(t, "penalty")
       THEN "Financial"
     ELSE IF includes(t, "terminate") \/ includes(t, "termination") THEN "Termination"
     ELSE IF \/ includes(t, "law") \/ includes(t, "jurisdiction")
             \/ includes(t, "liability") \/ includes(t, "arbitration")
       THEN "Legal"
     ELSE IF includes(t, "compliance") \/ includes(t, "regulation") \/ includes(t, "confidential")
       THEN "Compliance"
     ELSE "General"

\* the number of characters .slice(0, 260) keeps
SimplifiedMax == 260

\* simplifyText cutting the text before the replacements instead of after them
simplifyText_SliceFirst(text) ==
  LET cut == slice0(text, SimplifiedMax)
      r1 == replaceWord(cut, "hereinafter", "from now on")
      r2 == replaceWord(r1, "indemnify", "cover costs for")
      r3 == replaceWord(r2, "notwithstanding", "despite")
      r4 == replaceWord(r3, "force majeure", "events beyond control")
  IN r4 \o (IF Len(text) > SimplifiedMax THEN Ellipsis ELSE "")

simplifyText(text) ==
  LET r1 == replaceWord(text, "hereinafter", "from now on")
      r2 == replaceWord(r1, "indemnify", "cover costs for")
      r3 == replaceWord(r2, "notwithstanding", "despite")
      r4 == replaceWord(r3, "force majeure", "events beyond control")
  IN slice0(r4, SimplifiedMax) \o (IF Len(text) > SimplifiedMax THEN Ellipsis ELSE "")

SummaryLines == 6
SummaryMax == 360

summarize(text) ==
  LET s == join(sliceArr(split(text, "newline"), SummaryLines), " ")
  IN IF Len(s) > SummaryMax THEN slice0(s, SummaryMax) \o Ellipsis ELSE s


\* findNotes without the auto-renew check of line 123
findNotes_NoRenewal(text) ==
  LET t == toLowerCase(text)
  IN (IF includes(t, "indemnif")
        THEN <<"Indemnity present. Understand financial exposure.">> ELSE <<>>)
     \o (IF includes(t, "late fee")
        THEN <<"Late fee present. Review payment schedules.">> ELSE <<>>)
findNotes(text) ==
  LET t == toLowerCase(text)
  IN (IF includes(t, "auto-renew") \/ includes(t, "autorenew")
        THEN <<"Auto-renew detected. Consider calendar reminders.">> ELSE <<>>)
     \o (IF includes(t, "indemnif")
        THEN <<"Indemnity present. Understand financial exposure.">> ELSE <<>>)
     \o (IF includes(t, "late fee")
        THEN <<"Late fee present. Review payment schedules.">> ELSE <<>>)

\* /(shall|must|agree|responsible|warrant)/i.test(l)
IsObligation(l) ==
  someIncluded(toLowerCase(l), <<"shall", "must", "agree", "responsible", "warrant">>)

RECURSIVE filterObligations(_)
filterObligations(lines) ==
  IF lines = <<>> THEN <<>>
  ELSE IF IsObligation(Head(lines)) THEN <<Head(lines)>> \o filterObligations(Tail(lines))
  ELSE filterObligations(Tail(lines))

MaxObligations == 6

extractObligations(text) ==
  LET lines == filterNonEmpty(split(text, "obligation"))
  IN sliceArr(filterObligations(lines), MaxObligations)

RECURSIVE mapTrim(_)
mapTrim(arr) == IF arr = <<>> THEN <<>> ELSE <<trim(Head(arr))>> \o mapTrim(Tail(arr))

MaxClauses == 8

\* splitClauses without the .slice(0, 8)
splitClauses_NoLimit(text) == filterNonEmpty(mapTrim(split(text, "clause")))

splitClauses(text) ==
  LET parts == filterNonEmpty(mapTrim(split(text, "clause")))
  IN sliceArr(parts, MaxClauses)

(***************************************************************************)
(* DATE_REGEX, matched with the alternatives in their order               *)
(***************************************************************************)
NonZeroDigitChars == CharsOf("123456789")
IsNonZeroDigit(c) == c \in NonZeroDigitChars
IsDateSep(c) == c = "-" \/ c = "/"

\* (0?[1-9]|[12]\d|3[01])\b at position k: the length matched, 0 for none
DayLen(s, k) ==
  IF CharAt(s, k) = "0" /\ IsNonZeroDigit(CharAt(s, k + 1)) /\ WordBoundary(s, k + 2) THEN 2
  ELSE IF IsNonZeroDigit(CharAt(s, k)) /\ WordBoundary(s, k + 1) THEN 1
  ELSE IF CharAt(s, k) \in {"1", "2"} /\ IsDigit(CharAt(s, k + 1)) /\ WordBoundary(s, k + 2) THEN 2
  ELSE IF CharAt(s, k) = "3" /\ CharAt(s, k + 1) \in {"0", "1"} /\ WordBoundary(s, k + 2) THEN 2
  ELSE 0

\* [-/](0?[1-9]|[12]\d|3[01])\b at position j
DayPartLen(s, j) == IF IsDateSep(CharAt(s, j)) /\ DayLen(s, j + 1) > 0 THEN 1 + DayLen(s, j + 1) ELSE 0

\* (0?[1-9]|1[0-2]) and the rest of the pattern at position j
MonthPartLen(s, j) ==
  IF CharAt(s, j) = "0" /\ IsNonZeroDigit(CharAt(s, j + 1)) /\ DayPartLen(s, j + 2) > 0
    THEN 2 + DayPartLen(s, j + 2)
  ELSE IF IsNonZeroDigit(CharAt(s, j)) /\ DayPartLen(s, j + 1) > 0 THEN 1 + DayPartLen(s, j + 1)
  ELSE IF CharAt(s, j) = "1" /\ CharAt(s, j + 1) \in {"0", "1", "2"} /\ DayPartLen(s, j + 2) > 0
    THEN 2 + DayPartLen(s, j + 2)
  ELSE 0

DateLenAt(s, i) ==
  IF /\ (StartsAt(s, i, "20") \/ StartsAt(s, i, "19"))
     /\ WordBoundary(s, i)
     /\ IsDigit(CharAt(s, i + 2)) /\ IsDigit(CharAt(s, i + 3))
     /\ IsDateSep(CharAt(s, i + 4))
     /\ MonthPartLen(s, i + 5) > 0
  THEN 5 + MonthPartLen(s, i + 5)
  ELSE 0


\* raw.match(DATE_REGEX) giving the last match instead of the first
matchDate_Last(raw) ==
  LET hits == {i \in 1..Len(raw) : DateLenAt(raw, i) > 0}
  IN IF hits = {} THEN None
     ELSE LET i == CHOOSE h \in hits : \A g \in hits : g <= h
          IN Some(SubSeq(raw, i, i + DateLenAt(raw, i) - 1))
\* raw.match(DATE_REGEX): the first match, or undefined
matchDate(raw) ==
  LET hits == {i \in 1..Len(raw) : DateLenAt(raw, i) > 0}
  IN IF hits = {} THEN None
     ELSE LET i == Min(hits)
          IN Some(SubSeq(raw, i, i + DateLenAt(raw, i) - 1))

\* title.replace(/\.[a-zA-Z0-9]+$/, "")
stripExtension(title) ==
  LET dots == {i \in 1..(Len(title) - 1) :
                 /\ CharAt(title, i) = "."
                 /\ \A k \in (i + 1)..Len(title) : IsAlnum(CharAt(title, k))}
  IN IF dots = {} THEN title
     ELSE SubSeq(title, 1, Min(dots) - 1)


\* the clause objects with the category left out where no keyword was found
mapClauses_CueOnly(cands) ==
  [i \in 1..Len(cands) |->
     LET base == [id |-> <<"c-", i>>,
                  title |-> <<"Clause ", i>>,
                  originalText |-> cands[i],
                  simplifiedText |-> simplifyText(cands[i]),
                  riskLevel |-> scoreRiskForClause(cands[i])]
     IN IF categorizeClause(cands[i]) = "General" THEN base
        ELSE base @@ [category |-> categorizeClause(cands[i])]]
\* clauseCandidates.map((c, i) => ({...}))
mapClauses(cands) ==
  [i \in 1..Len(cands) |->
     [id |-> <<"c-", i>>,
      title |-> <<"Clause ", i>>,
      originalText |-> cands[i],
      simplifiedText |-> simplifyText(cands[i]),
      category |-> categorizeClause(cands[i]),
      riskLevel |-> scoreRiskForClause(cands[i])]]

\* basicExtract looking for the party cues without lower-casing the text
basicExtract_CaseSensitive(raw, language, title, now) ==
  LET parties == IF includes(raw, "lessor") \/ includes(raw, "lessee")
                 THEN <<[name |-> "Lessor", role |-> "Lessor"], [name |-> "Lessee", role |-> "Lessee"]>>
                 ELSE <<[name |-> "Party A", role |-> "PartyA"], [name |-> "Party B", role |-> "PartyB"]>>
      stripped == stripExtension(title)
  IN [id |-> <<"doc-", now>>,
      title |-> IF stripped = "" THEN "Document" ELSE stripped,
      language |-> language,
      parties |-> parties,
      effectiveDate |-> matchDate(raw),
      obligations |-> extractObligations(raw),
      clauses |-> mapClauses(splitClauses(raw)),
      summary |-> summarize(raw),
      notes |-> findNotes(raw)]

basicExtract(raw, language, title, now) ==
  LET lower == toLowerCase(raw)
      parties == IF includes(lower, "lessor") \/ includes(lower, "lessee")
                 THEN <<[name |-> "Lessor", role |-> "Lessor"], [name |-> "Lessee", role |-> "Lessee"]>>
                 ELSE <<[name |-> "Party A", role |-> "PartyA"], [name |-> "Party B", role |-> "PartyB"]>>
      stripped == stripExtension(title)
  IN [id |-> <<"doc-", now>>,
      title |-> IF stripped = "" THEN "Document" ELSE stripped,
      language |-> language,
      parties |-> parties,
      effectiveDate |-> matchDate(raw),
      obligations |-> extractObligations(raw),
      clauses |-> mapClauses(splitClauses(raw)),
      summary |-> summarize(raw),
      notes |-> findNotes(raw)]

(***************************************************************************)
(* lang-detect (src/lib/analysis.ts:207-216).  A TLA+ string holds no      *)
(* Devanagari, so each code point the cue words use has a stand-in:        *)
(*   U+0939 ha {   U+0948 ai }   U+0914 au [   U+0930 ra ]   U+0915 ka <   *)
(*   U+0947 e  >   U+091C ja (   U+092C ba )   U+093F i  |   U+0938 sa ~   *)
(*   U+0932 la "   U+090F E  @   U+0906 aa #   U+0923 nna $  U+091A ca %   *)
(*   U+094D virama &  U+092F ya *  U+093E aa-sign +  U+092A pa =           *)
(*   U+0942 uu \   U+0928 na ?   U+0920 ttha !   U+0940 ii '               *)
(***************************************************************************)
DevanagariLetters == "{}[]<>()|~\"@#$%&*+=\\?!'"
\* /[\u0900-\u097F]/
Devanagari == CharsOf(DevanagariLetters)
HindiCues == <<"{}", "[]", "<>", "()<|", "~>", "\"|@">>
MarathiCues == <<"#{>", "#$|", "%&*+", "=+~\\?", "~+!'">>


\* the cascade with the Marathi cue words tested before the Hindi ones
detectLanguageBySample_MarathiFirst(text) ==
  LET hasDevanagari == \E i \in 1..Len(text) : CharAt(text, i) \in Devanagari
  IN IF ~hasDevanagari THEN "en"
     ELSE IF someIncluded(text, MarathiCues) THEN "mr"
     ELSE IF someIncluded(text, HindiCues) THEN "hi"
     ELSE "hi"
detectLanguageBySample(text) ==
  LET hasDevanagari == \E i \in 1..Len(text) : CharAt(text, i) \in Devanagari
  IN IF ~hasDevanagari THEN "en"
     ELSE IF someIncluded(text, HindiCues) THEN "hi"
     ELSE IF someIncluded(text, MarathiCues) THEN "mr"
     ELSE "hi"

(***************************************************************************)
(* src/lib/analysis.ts: computeRisk and generateRecommendations            *)
(***************************************************************************)
ScoredCategories == <<"Financial", "Legal", "Compliance", "Termination">>

HasField(r, f) == f \in DOMAIN r

\* c.riskLevel === "High" ? 85 : c.riskLevel === "Medium" ? 55 : 20
riskWeight(c) ==
  IF HasField(c, "riskLevel") /\ c.riskLevel = "High" THEN 85
  ELSE IF HasField(c, "riskLevel") /\ c.riskLevel = "Medium" THEN 55
  ELSE 20


\* the bucket key with General and uncategorised clauses counted as Legal
bucketKey_GeneralAsLegal(c) ==
  IF HasField(c, "category") /\ c.category \notin {"", "General"} THEN c.category ELSE "Legal"
\* c.category || "General"
bucketKey(c) == IF HasField(c, "category") /\ c.category # "" THEN c.category ELSE "General"

\* buckets[cat] after the forEach: the weights of the clauses of the category, in order
RECURSIVE bucket(_, _)
bucket(clauses, cat) ==
  IF clauses = <<>> THEN <<>>
  ELSE (IF bucketKey(Head(clauses)) = cat THEN <<riskWeight(Head(clauses))>> ELSE <<>>)
       \o bucket(Tail(clauses), cat)

RECURSIVE sum(_)
sum(arr) == IF arr = <<>> THEN 0 ELSE Head(arr) + sum(Tail(arr))


\* the quotient cut off instead of rounded
roundDiv_Floor(a, n) == a \div n
\* Math.round(a / n) for a >= 0, n > 0: the nearest integer, halves up
roundDiv(a, n) == (2 * a + n) \div (2 * n)

EmptyBucketScore == 10

\* avg adding the weights up without dividing by their number
avg_NoDivide(arr) == IF Len(arr) > 0 THEN sum(arr) ELSE EmptyBucketScore

avg(arr) == IF Len(arr) > 0 THEN roundDiv(sum(arr), Len(arr)) ELSE EmptyBucketScore

\* /re/i.test(c.originalText) for some clause, re an alternation of plain words
someClauseMentions(clauses, words) ==
  \E k \in 1..Len(clauses) : someIncluded(toLowerCase(clauses[k].originalText), words)


\* the test of line 158 never finding the date missing
lacksEffectiveDate_Never(doc) == FALSE
\* !doc.effectiveDate
lacksEffectiveDate(doc) ==
  ~HasField(doc, "effectiveDate") \/ doc.effectiveDate = None \/ doc.effectiveDate = Some("")

RecArbitration == "Arbitration clause: confirm seat and rules."
RecTermination == "Termination: clarify notice periods and grounds."
RecPenalties == "Financial penalties: negotiate caps or grace periods."
RecMissingDate == "Missing effective date: ensure dates are explicit."
RecFallback == "No major risks detected."

\* generateRecommendations without the fallback of line 159
generateRecommendations_NoFallback(doc) ==
  (IF someClauseMentions(doc.clauses, <<"arbitration">>) THEN <<RecArbitration>> ELSE <<>>)
  \o (IF someClauseMentions(doc.clauses, <<"termination">>) THEN <<RecTermination>> ELSE <<>>)
  \o (IF someClauseMentions(doc.clauses, <<"penalty", "late fee">>) THEN <<RecPenalties>> ELSE <<>>)
  \o (IF lacksEffectiveDate(doc) THEN <<RecMissingDate>> ELSE <<>>)

generateRecommendations(doc) ==
  LET recs ==
        (IF someClauseMentions(doc.clauses, <<"arbitration">>) THEN <<RecArbitration>> ELSE <<>>)
        \o (IF someClauseMentions(doc.clauses, <<"termination">>) THEN <<RecTermination>> ELSE <<>>)
        \o (IF someClauseMentions(doc.clauses, <<"penalty", "late fee">>) THEN <<RecPenalties>> ELSE <<>>)
        \o (IF lacksEffectiveDate(doc) THEN <<RecMissingDate>> ELSE <<>>)
  IN IF Len(recs) > 0 THEN recs ELSE <<RecFallback>>

computeRisk(doc) ==
  [byCategory |->
     [k \in 1..Len(ScoredCategories) |->
        [category |-> ScoredCategories[k], score |-> avg(bucket(doc.clauses, ScoredCategories[k]))]],
   recommendations |-> generateRecommendations(doc)]

(***************************************************************************)
(* src/lib/analysis.ts: reading an uploaded file                           *)
(***************************************************************************)
PdfType == "application/pdf"
DocxType == "application/vnd.openxmlformats-officedocument.wordprocessingml.document"

PdfFallbackText ==
  "PDF document with clauses about payment, termination, confidentiality, and governing law. Effective Date: 2025-06-01."
DocxText ==
  "DOCX agreement content. Parties: Lessor and Lessee. Rent and late fee terms; termination on breach; jurisdiction in Mumbai."
OcrText ==
  "Scanned legal agreement image. Parties: Party A and Party B. Effective Date: 2025-01-01. Contains indemnify and arbitration clauses."

\* file.content is the decoded text of the file's bytes (the model's texts hold no NUL)
readFileText(file) ==
  IF file.type = PdfType THEN (IF file.content # "" THEN file.content ELSE PdfFallbackText)
  ELSE IF file.type = DocxType THEN DocxText
  ELSE IF startsWith(file.type, "image/") THEN ""
  ELSE file.content

simulateOCR(file) == IF ~startsWith(file.type, "image/") THEN "" ELSE OcrText

\* parseUploaded after its two awaits: text and ocrText are their results
parseUploadedDoc(file, langHint, text, ocrText, now) ==
  LET content == text \o (IF ocrText # "" THEN "\n" \o ocrText ELSE "")
      \* langHint || detectLanguageBySample(content) || "en"
      language == IF langHint # None THEN langHint[1] ELSE detectLanguageBySample(content)
  IN basicExtract(IF content # "" THEN content ELSE "Sample Agreement", language, file.name, now)

(***************************************************************************)
(* src/unnamed/part_000 (data/samples/load-samples): the sample store.     *)
(* The nine JSON documents are not part of the sources; their content is   *)
(* modelled from the data model of the specification (section 3).          *)
(***************************************************************************)
SampleIds ==
  <<"sample-en-rental", "sample-en-employment", "sample-en-services",
    "sample-hi-rental", "sample-hi-employment", "sample-hi-services",
    "sample-mr-rental", "sample-mr-employment", "sample-mr-services">>

SampleIdSet == {SampleIds[k] : k \in 1..Len(SampleIds)}

\* a stored clause; category and riskLevel are optional fields of the Clause type
SampleClause(i, txt, cat, risk) ==
  LET base == [id |-> <<"c-", i>>, title |-> <<"Clause ", i>>, originalText |-> txt, simplifiedText |-> txt]
      withCat == IF cat = None THEN base ELSE base @@ [category |-> cat[1]]
  IN IF risk = None THEN withCat ELSE withCat @@ [riskLevel |-> risk[1]]

SampleClauseTexts ==
  <<"Rent of 20000 is payable monthly.",
    "A late fee penalty applies after 5 days.",
    "Disputes go to arbitration in Mumbai.",
    "Either party may terminate immediately; termination needs 30 days notice.",
    "The parties shall keep all information confidential.",
    "This agreement is made in good faith.",
    "Governing law is the law of India.",
    "Employee must comply with every regulation.">>

\* the clause lists of the nine samples; every stored clause carries the category and
\* the riskLevel the data model of the specification gives a Clause
SampleClauseLists ==
  <<  <<SampleClause(1, SampleClauseTexts[1], Some("Financial"), Some("Low")),
        SampleClause(2, SampleClauseTexts[2], Some("Financial"), Some("High")),
        SampleClause(3, SampleClauseTexts[4], Some("Termination"), Some("Medium"))>>,
      <<SampleClause(1, SampleClauseTexts[5], Some("Compliance"), Some("Medium")),
        SampleClause(2, SampleClauseTexts[8], Some("Compliance"), Some("Low")),
        SampleClause(3, SampleClauseTexts[6], Some("General"), Some("High"))>>,
      <<SampleClause(1, SampleClauseTexts[3], Some("Legal"), Some("High")),
        SampleClause(2, SampleClauseTexts[7], Some("Legal"), Some("Medium")),
        SampleClause(3, SampleClauseTexts[1], Some("Financial"), Some("Low"))>>,
      <<SampleClause(1, SampleClauseTexts[6], Some("General"), Some("Low"))>>,
      <<>>,
      <<SampleClause(1, SampleClauseTexts[1], Some("Financial"), Some("Medium")),
        SampleClause(2, SampleClauseTexts[2], Some("Financial"), Some("Low"))>>,
      <<SampleClause(1, SampleClauseTexts[4], Some("Termination"), Some("High")),
        SampleClause(2, SampleClauseTexts[4], Some("Termination"), Some("High")),
        SampleClause(3, SampleClauseTexts[6], Some("General"), Some("High"))>>,
      <<SampleClause(1, SampleClauseTexts[1], Some("Financial"), Some("High")),
        SampleClause(2, SampleClauseTexts[3], Some("Legal"), Some("Medium")),
        SampleClause(3, SampleClauseTexts[5], Some("Compliance"), Some("Low")),
        SampleClause(4, SampleClauseTexts[4], Some("Termination"), Some("Low")),
        SampleClause(5, SampleClauseTexts[6], Some("General"), Some("Low")),
        SampleClause(6, SampleClauseTexts[7], Some("Legal"), Some("Low")),
        SampleClause(7, SampleClauseTexts[8], Some("Compliance"), Some("High")),
        SampleClause(8, SampleClauseTexts[2], Some("Financial"), Some("Low"))>>,
      <<SampleClause(1, SampleClauseTexts[6], Some("General"), Some("Medium")),
        SampleClause(2, SampleClauseTexts[6], Some("General"), Some("Low"))>>  >>

SampleLanguages == <<"en", "en", "en", "hi", "hi", "hi", "mr", "mr", "mr">>

SampleParties ==
  <<  <<[name |-> "Asha Rao", role |-> "Lessor"], [name |-> "Vikram Shah", role |-> "Lessee"]>>,
      <<[name |-> "Acme Ltd", role |-> "Employer"], [name |-> "Neha Patil", role |-> "Employee"]>>,
      <<[name |-> "Orbit LLP", role |-> "Vendor"], [name |-> "Zen Corp", role |-> "Customer"],
        [name |-> "Escrow Agent", role |-> "Other"]>>  >>

SampleTitles == <<"Rental Agreement", "Employment Contract", "Services Agreement">>

SampleObligations ==
  <<  <<"Lessee shall pay rent on time", "Lessor must maintain the premises">>,
      <<>>,
      <<"Vendor shall deliver", "Customer shall pay", "Vendor must invoice", "Customer must accept",
        "Both agree to cooperate", "Vendor is responsible for defects">>  >>

\* the k-th stored sample (k in 1..9): three kinds of agreement in three languages
SampleDocument(k) ==
  LET kind == ((k - 1) % 3) + 1
  IN [id |-> SampleIds[k],
      title |-> SampleTitles[kind],
      language |-> SampleLanguages[k],
      parties |-> SampleParties[kind],
      effectiveDate |-> IF kind = 2 THEN None ELSE Some("2025-04-01"),
      obligations |-> SampleObligations[kind],
      clauses |-> SampleClauseLists[k],
      summary |-> SampleTitles[kind] \o " between the parties.",
      notes |-> IF kind = 1 THEN <<"Auto-renew detected. Consider calendar reminders.">> ELSE <<>>]

\* const all: Record<string, ParsedDocument> = { ... }
SampleStore == [id \in SampleIdSet |-> SampleDocument(CHOOSE k \in 1..Len(SampleIds) : SampleIds[k] = id)]

\* `all` is an object literal: all[id] also finds what Object.prototype provides
ObjectPrototypeKeys ==
  {"constructor", "toString", "toLocaleString", "valueOf", "hasOwnProperty",
   "isPrototypeOf", "propertyIsEnumerable", "__proto__"}

(***************************************************************************)
(* The inputs of the model                                                 *)
(***************************************************************************)
RECURSIVE Repeat(_, _)
Repeat(s, n) == IF n = 0 THEN "" ELSE s \o Repeat(s, n - 1)

\* 250 characters of plain words, ending in a space
Filler == Repeat("lorem ", 41) \o "qui "

NineParagraphs ==
  "P1 shall\n\nP2 shall\n\nP3 shall\n\nP4 shall\n\nP5 shall\n\nP6 shall\n\nP7 shall\n\nP8 shall\n\nP9 shall\n\n"

\* the pieces the texts of uploaded files are made of
Vocabulary ==
  <<"Lessor shall pay rent. ",
    "the LESSEE must agree\n",
    "\n\n",
    "1. ",
    Filler,
    "indemnify ",
    "notwithstanding ",
    NineParagraphs,
    "arbitration on 2025-01-01. ",
    "auto-renew late fee penalty, termination ",
    "plain words ",
    "hereinafter force majeure ">>

\* the largest number of pieces in a text
MaxPieces == 2

RECURSIVE Concat(_)
Concat(ps) == IF ps = <<>> THEN "" ELSE Vocabulary[Head(ps)] \o Concat(Tail(ps))

Texts == {Concat(ps) : ps \in UNION {[1..n -> 1..Len(Vocabulary)] : n \in 0..MaxPieces}}

\* name and declared content type of the uploaded files
FileKinds ==
  {[name |-> "lease.txt", type |-> "text/plain"],
   [name |-> "contract.v2.pdf", type |-> PdfType],
   [name |-> ".env", type |-> ""]}

Files ==
  {[name |-> k.name, type |-> k.type, content |-> t] : k \in FileKinds, t \in Texts}
  \cup {[name |-> "deal.docx", type |-> DocxType, content |-> "PK"],
        [name |-> "scan.png", type |-> "image/png", content |-> "PNG"]}


\* texts in Devanagari script (in the stand-ins of DevanagariLetters): with no cue
\* word, with a Hindi cue, with a Marathi cue, with cues of both, and a Latin text
\* with a Marathi cue
ScriptTexts ==
  {"<+? *+ ",
   "<+? {} ",
   "<+? #{> ",
   "#$| <+? [] ",
   "Lessor shall pay rent. =+~\\? "}

ScriptFiles == {[name |-> "karar.txt", type |-> "text/plain", content |-> t] : t \in ScriptTexts}

\* the texts of the scenarios of section 8 of the specification and of leases alike
ScenarioTexts ==
  {"This lease shall auto-renew every year.",
   "Lessor and Lessee agree.\n\nThe Lessee shall indemnify the Lessor.\n\nDisputes go to arbitration.\n\nSigned 2025-01-01.",
   "Lessor and Lessee agree.\n\nThe Lessee shall indemnify the Lessor.\n\nArbitration settles rent disputes.\n\nSigned 2025-01-01, renewed 2026-01-01.",
   "Liability is unlimited.\n\nThe contractor shall indemnify the client.\n\nSigned 2025-01-01."}

ScenarioFiles == {[name |-> "scenario.txt", type |-> "text/plain", content |-> t] : t \in ScenarioTexts}
LanguageCodes == {"en", "hi", "mr"}
LangHints == {None} \cup {Some(l) : l \in LanguageCodes}

\* sample ids a caller may pass: the stored ones, unknown ones, and the empty string
UnknownSampleIds == {"sample-fr-rental", "constructor"}
SampleIdInputs == {None, Some("")} \cup {Some(id) : id \in SampleIdSet \cup UnknownSampleIds}

\* files passed along with a sample id
FilesWithSample == {f \in Files : f.content = "Lessor shall pay rent. " \/ f.type = "image/png"}

\* a value of a condition: undefined and the empty string are falsy
Truthy(opt) == opt # None /\ opt # Some("")

\* the inputs of analyzeDocument: { file?, sampleId?, langHint? }: every file alone,
\* the files in Devanagari script with every language hint, the files of the
\* scenarios, and a few files or none with every sample id and language hint
Inputs ==
  {[file |-> Some(f), sampleId |-> None, langHint |-> None] : f \in Files}
  \cup
  {[file |-> Some(f), sampleId |-> None, langHint |-> h] : f \in ScriptFiles, h \in LangHints}
  \cup
  {[file |-> Some(f), sampleId |-> None, langHint |-> None] : f \in ScenarioFiles}
  \cup
  {[file |-> f, sampleId |-> sid, langHint |-> h] :
     f \in {None} \cup {Some(x) : x \in FilesWithSample}, sid \in SampleIdInputs, h \in LangHints}

\* the values Date.now() returns
MaxTimestamp == 1
Timestamps == 1..MaxTimestamp

(***************************************************************************)
(* State                                                                   *)
(***************************************************************************)
VARIABLES
  all,        \* the sample store of load-samples: id -> ParsedDocument
  now,        \* the clock: what Date.now() returns
  input,      \* the argument of the analyzeDocument call
  pc,         \* where the call is: "start", "parseSample", "readFileText", "simulateOCR",
              \* "basicExtract", "computeRisk", "resolved", "rejected"
  text,       \* parseUploaded: the awaited result of readFileText
  ocrText,    \* parseUploaded: the awaited result of simulateOCR
  fresh,      \* the object basicExtract built in this call
  doc,        \* analyzeDocument's doc: a reference <<"sample", id>>, <<"inherited", key>>
              \* or <<"fresh">>
  result,     \* the value the returned promise resolved with
  error,      \* the error the returned promise rejected with
  invoked,    \* the functions called so far, in call order
  file,       \* UploadPanel: the chosen file (useState)
  sampleId,   \* UploadPanel: the chosen sample id (useState)
  loading,    \* UploadPanel: the Process button is busy (useState)
  currentDocumentId,  \* UploadPanel: the id the backend gave the upload (useState)
  panelPc,    \* UploadPanel: where handleProcess is: "idle", "uploadDocument", "analyzeDocument"
  uploadResponse,     \* handleProcess: the awaited result of apiService.uploadDocument
  appDoc,     \* AppProvider: doc (set by setDoc)
  analysis,   \* AppProvider: analysis (set by setAnalysis)
  toast,      \* the title of the toast shown last
  held,       \* a caller of analyzeDocument: the result of an earlier call it still holds
  variant,    \* UploadPanel: which of its two versions runs: "upload-panel.tsx" or "part_004"
  chatVariant,        \* ChatPanel: which of its two versions is mounted: "await" or "direct"
  messages,   \* ChatPanel: the messages shown (useState)
  chatLoading,        \* ChatPanel: loading (useState)
  inputValue, \* ChatPanel: the value of the form's input q
  chatDocumentId,     \* ChatPanel: its own currentDocumentId (useState)
  chatCall,   \* ChatPanel: the onSend run awaiting answer(q): its question and the
              \* document id it asks the backend about, if any
  child,      \* answerQuery: the state of the spawned process
  output,     \* answerQuery: the stdout collected so far
  errorOutput,        \* answerQuery: the stderr collected so far (the variable error)
  promise     \* answerQuery: the state of the promise it returned

analyzeVars == <<input, pc, text, ocrText, fresh, doc, result, error, invoked>>
panelVars == <<file, sampleId, loading, currentDocumentId, panelPc, uploadResponse, appDoc, analysis, toast>>
chatVars == <<chatVariant, messages, chatLoading, inputValue, chatDocumentId, chatCall>>
queryVars == <<child, output, errorOutput, promise>>
vars == <<all, now, analyzeVars, panelVars, held, variant, chatVars, queryVars>>

\* the object a reference points to: a stored sample, a property inherited from
\* Object.prototype, the object built in this call, an object the backend sent, or
\* the object an earlier call built
Deref(ref) ==
  IF ref[1] = "sample" THEN all[ref[2]]
  ELSE IF ref[1] = "inherited" THEN [inherited |-> ref[2]]
  ELSE IF ref[1] \in {"backend", "earlier"} THEN ref[2]
  ELSE fresh[1]

(***************************************************************************)
(* src/lib/analysis.ts: analyzeDocument, one action per stretch of code    *)
(* between two awaits                                                      *)
(***************************************************************************)
PanelIdle ==
  /\ file = None /\ sampleId = None /\ loading = FALSE /\ currentDocumentId = None
  /\ panelPc = "idle" /\ uploadResponse = None /\ appDoc = None /\ analysis = None /\ toast = None

\* part_002 lines 19-21: the chat panel as it is mounted
ChatIdle ==
  /\ chatVariant = "await"
  /\ messages = <<>> /\ chatLoading = FALSE /\ inputValue = "" /\ chatDocumentId = None
  /\ chatCall = None

\* answerQuery has not been called
NoQuery == child = "none" /\ output = "" /\ errorOutput = "" /\ promise = <<"none">>

NoCall ==
  /\ text = None /\ ocrText = None /\ fresh = None /\ doc = None
  /\ result = None /\ error = None /\ invoked = <<>>

Init ==
  /\ all = SampleStore
  /\ held = None
  /\ now \in Timestamps
  /\ input \in Inputs
  /\ pc = "start"
  /\ NoCall
  /\ PanelIdle
  /\ variant = "upload-panel.tsx"
  /\ ChatIdle
  /\ NoQuery

\* the choice of the input mode testing input.file before input.sampleId
Dispatch_FileFirst ==
  /\ pc = "start"
  /\ IF input.file # None
       THEN /\ pc' = "readFileText"
            /\ invoked' = Append(invoked, "parseUploaded")
            /\ error' = error
     ELSE IF Truthy(input.sampleId)
       THEN /\ pc' = "parseSample"
            /\ invoked' = Append(invoked, "parseSample")
            /\ error' = error
     ELSE /\ pc' = "rejected"
          /\ error' = Some("No document input provided")
          /\ invoked' = invoked
  /\ UNCHANGED <<all, now, input, text, ocrText, fresh, doc, result, panelVars, held, variant, chatVars, queryVars>>

\* lines 184-191: the choice of the input mode
Dispatch ==
  /\ pc = "start"
  /\ IF Truthy(input.sampleId)
       THEN /\ pc' = "parseSample"
            /\ invoked' = Append(invoked, "parseSample")
            /\ error' = error
     ELSE IF input.file # None
       THEN /\ pc' = "readFileText"
            /\ invoked' = Append(invoked, "parseUploaded")
            /\ error' = error
     ELSE /\ pc' = "rejected"
          /\ error' = Some("No document input provided")
          /\ invoked' = invoked
  /\ UNCHANGED <<all, now, input, text, ocrText, fresh, doc, result, panelVars, held, variant, chatVars, queryVars>>

\* part_000 lines 24-27: all[id] finds own and inherited properties
loadSampleById(id) ==
  IF id \in DOMAIN all THEN Some(<<"sample", id>>)
  ELSE IF id \in ObjectPrototypeKeys THEN Some(<<"inherited", id>>)
  ELSE None

\* parseSample handing on a copy of the sample relabelled with the language hint
ParseSample_ApplyHint ==
  /\ pc = "parseSample"
  /\ invoked' = Append(invoked, "loadSampleById")
  /\ LET sample == loadSampleById(input.sampleId[1])
     IN IF sample # None
          THEN /\ IF input.langHint # None /\ HasField(Deref(sample[1]), "language")
                    THEN /\ fresh' = Some([Deref(sample[1]) EXCEPT !.language = input.langHint[1]])
                         /\ doc' = Some(<<"fresh">>)
                    ELSE /\ fresh' = fresh
                         /\ doc' = sample
               /\ pc' = "computeRisk"
               /\ error' = error
          ELSE /\ doc' = doc
               /\ fresh' = fresh
               /\ pc' = "rejected"
               /\ error' = Some("Sample not found")
  /\ UNCHANGED <<all, now, input, text, ocrText, result, panelVars, held, variant, chatVars, queryVars>>

\* lines 31-34 and 186: parseSample awaits loadSampleById and hands its result on
ParseSample ==
  /\ pc = "parseSample"
  /\ invoked' = Append(invoked, "loadSampleById")
  /\ LET sample == loadSampleById(input.sampleId[1])
     IN IF sample # None
          THEN /\ doc' = sample
               /\ pc' = "computeRisk"
               /\ error' = error
          ELSE /\ doc' = doc
               /\ pc' = "rejected"
               /\ error' = Some("Sample not found")
  /\ UNCHANGED <<all, now, input, text, ocrText, fresh, result, panelVars, held, variant, chatVars, queryVars>>

\* line 24: const text = await readFileText(file)
ReadFileText ==
  /\ pc = "readFileText"
  /\ text' = Some(readFileText(input.file[1]))
  /\ invoked' = Append(invoked, "readFileText")
  /\ pc' = "simulateOCR"
  /\ UNCHANGED <<all, now, input, ocrText, fresh, doc, result, error, panelVars, held, variant, chatVars, queryVars>>

\* line 25: const ocrText = await simulateOCR(file)
SimulateOCR ==
  /\ pc = "simulateOCR"
  /\ ocrText' = Some(simulateOCR(input.file[1]))
  /\ invoked' = Append(invoked, "simulateOCR")
  /\ pc' = "basicExtract"
  /\ UNCHANGED <<all, now, input, text, fresh, doc, result, error, panelVars, held, variant, chatVars, queryVars>>

\* the functions lines 26-28 and basicExtract call, in call order
ExtractionCalls(langHint, built) ==
  (IF langHint = None THEN <<"detectLanguageBySample">> ELSE <<>>)
  \o <<"basicExtract", "extractObligations", "splitClauses">>
  \o (IF built.clauses # <<>> THEN <<"simplifyText", "categorizeClause", "scoreRiskForClause">> ELSE <<>>)
  \o <<"summarize", "findNotes">>

\* lines 26-28 and 188: the rest of parseUploaded
BasicExtract ==
  /\ pc = "basicExtract"
  /\ LET built == parseUploadedDoc(input.file[1], input.langHint, text[1], ocrText[1], now)
     IN /\ fresh' = Some(built)
        /\ invoked' = invoked \o ExtractionCalls(input.langHint, built)
  /\ doc' = Some(<<"fresh">>)
  /\ pc' = "computeRisk"
  /\ UNCHANGED <<all, now, input, text, ocrText, result, error, panelVars, held, variant, chatVars, queryVars>>

\* lines 192-193: computeRisk reads doc.clauses; the result holds the same doc object
ComputeRisk ==
  /\ pc = "computeRisk"
  /\ invoked' = Append(invoked, "computeRisk")
  /\ IF HasField(Deref(doc[1]), "clauses")
       THEN /\ result' = Some([doc |-> doc[1], risks |-> computeRisk(Deref(doc[1]))])
            /\ pc' = "resolved"
            /\ error' = error
       ELSE /\ result' = result
            /\ pc' = "rejected"
            /\ error' = Some("TypeError: Cannot read properties of undefined (reading 'forEach')")
  /\ UNCHANGED <<all, now, input, text, ocrText, fresh, doc, panelVars, held, variant, chatVars, queryVars>>

Next ==
  \/ Dispatch
  \/ ParseSample
  \/ ReadFileText
  \/ SimulateOCR
  \/ BasicExtract
  \/ ComputeRisk

Spec == Init /\ [][Next]_vars

(***************************************************************************)
(* computeRisk called by a client (it is exported: "recomputing risk       *)
(* without re-running extraction"), on documents of every small clause set *)
(***************************************************************************)
\* the clauses the documents handed to computeRisk are made of
RiskClauseKinds ==
  {SampleClause(0, "A late fee applies.", Some("Financial"), Some("High")),
   SampleClause(0, "Rent is due monthly.", Some("Financial"), Some("Low")),
   SampleClause(0, "Disputes go to ARBITRATION.", Some("Legal"), Some("Medium")),
   SampleClause(0, "Termination needs notice.", Some("Termination"), Some("High")),
   SampleClause(0, "Keep records of compliance.", Some("Compliance"), Some("Medium")),
   SampleClause(0, "A penalty applies.", Some("General"), Some("High")),
   SampleClause(0, "Plain words.", None, None),
   SampleClause(0, "Governing law.", Some("Legal"), None)}

\* the largest number of clauses of a document handed to computeRisk directly
MaxRiskClauses == 3

\* how often the client calls computeRisk on the same document
MaxRiskCalls == 2

RiskDocuments ==
  {[SampleDocument(1) EXCEPT !.clauses = cs, !.effectiveDate = d] :
     cs \in UNION {[1..n -> RiskClauseKinds] : n \in 0..MaxRiskClauses},
     d \in {None, Some(""), Some("2025-04-01")}}

NoInput == [file |-> None, sampleId |-> None, langHint |-> None]

RiskInit ==
  /\ all = SampleStore
  /\ held = None
  /\ now \in Timestamps
  /\ input = NoInput
  /\ pc = "client"
  /\ fresh \in {Some(d) : d \in RiskDocuments}
  /\ doc = Some(<<"fresh">>)
  /\ text = None /\ ocrText = None /\ result = None /\ error = None /\ invoked = <<>>
  /\ PanelIdle
  /\ variant = "upload-panel.tsx"
  /\ ChatIdle
  /\ NoQuery

\* computeRisk collecting its recommendations in the document's own notes array
CallComputeRisk_Mutating ==
  /\ pc = "client"
  /\ Len(invoked) < MaxRiskCalls
  /\ invoked' = Append(invoked, "computeRisk")
  /\ LET d == Deref(doc[1])
         recs == d.notes \o generateRecommendations(d)
     IN /\ fresh' = Some([d EXCEPT !.notes = recs])
        /\ result' = Some([doc |-> doc[1],
                           risks |-> [computeRisk(d) EXCEPT !.recommendations = recs]])
  /\ UNCHANGED <<all, now, input, pc, text, ocrText, doc, error, panelVars, held, variant, chatVars, queryVars>>

\* const risks = computeRisk(doc): lines 129-148 assign nothing outside their locals
CallComputeRisk ==
  /\ pc = "client"
  /\ Len(invoked) < MaxRiskCalls
  /\ invoked' = Append(invoked, "computeRisk")
  /\ result' = Some([doc |-> doc[1], risks |-> computeRisk(Deref(doc[1]))])
  /\ UNCHANGED <<all, now, input, pc, text, ocrText, fresh, doc, error, panelVars, held, variant, chatVars, queryVars>>

RiskNext == CallComputeRisk

SpecRisk == RiskInit /\ [][RiskNext]_vars

(***************************************************************************)
(* src/components/upload-panel.tsx: UploadPanel                            *)
(***************************************************************************)
\* const samples = listSamples(): Object.values(all), the stored objects themselves
samples == [k \in 1..Len(SampleIds) |-> <<"sample", SampleIds[k]>>]

\* samples.find(s => s.id === sampleId)
findSample(id) ==
  LET hits == {k \in 1..Len(samples) : Deref(samples[k]).id = id}
  IN IF hits = {} THEN None ELSE Some(samples[Min(hits)])

\* lines 53-68: the analysis the panel makes up for a sample
mockAnalysis(sample) ==
  [doc |-> sample,
   risks |->
     [by_category |->
        <<[category |-> "Financial", score |-> 25], [category |-> "Legal", score |-> 30],
          [category |-> "Compliance", score |-> 20], [category |-> "Termination", score |-> 15]>>,
      recommendations |->
        <<"Standard terms detected", "Consider legal review for compliance",
          "Monitor termination clauses">>]]

\* the files a user picks in the panel
PanelFiles == {f \in Files : f.content = "Lessor shall pay rent. " /\ f.type = "text/plain"}
              \cup {f \in Files : f.type = "image/png"}

\* what the backend may answer to /api/upload: a response, or a failure (None)
UploadOutcomes ==
  {None} \cup {Some([success |-> ok, document_id |-> id]) : ok \in BOOLEAN, id \in {"d-1", "d-2"}}

\* the documents the backend may send back
BackendDocuments == {[SampleDocument(k) EXCEPT !.id = "d-1"] : k \in {1, 5}}

\* what the backend may answer to /api/analyze: a failure (None), or a response
\* with or without an analysis, whose risks are the backend's own
AnalyzeOutcomes ==
  {None, Some([success |-> FALSE, analysis |-> None]), Some([success |-> TRUE, analysis |-> None])}
  \cup {Some([success |-> TRUE,
               analysis |-> Some([doc |-> <<"backend", d>>,
                                  risks |-> IF own THEN [byCategory |-> <<>>, recommendations |-> <<>>]
                                            ELSE computeRisk(d)])]) :
          d \in BackendDocuments, own \in BOOLEAN}

PanelInit ==
  /\ all = SampleStore
  /\ held = None
  /\ now \in Timestamps
  /\ input = NoInput
  /\ pc = "notCalled"
  /\ NoCall
  /\ PanelIdle
  /\ variant = "upload-panel.tsx"
  /\ ChatIdle
  /\ NoQuery

\* line 105: onChange={(e) => setFile(e.target.files?.[0])}
SetFile ==
  /\ \E f \in {None} \cup {Some(x) : x \in PanelFiles} : file' = f
  /\ UNCHANGED <<all, now, held, variant, chatVars, queryVars, analyzeVars, sampleId, loading, currentDocumentId, panelPc,
                 uploadResponse, appDoc, analysis, toast>>

\* line 116: <Select onValueChange={setSampleId}> over the ids of the samples
SetSampleId ==
  /\ \E k \in 1..Len(samples) : sampleId' = Some(Deref(samples[k]).id)
  /\ UNCHANGED <<all, now, held, variant, chatVars, queryVars, analyzeVars, file, loading, currentDocumentId, panelPc,
                 uploadResponse, appDoc, analysis, toast>>

\* lines 24-30 and 47-87: a click on the enabled Process button runs handleProcess up
\* to its first await; the sample branch has none and runs to its end
HandleProcess ==
  /\ panelPc = "idle"
  /\ ~(loading \/ (file = None /\ ~Truthy(sampleId)))
  /\ IF file # None
       THEN /\ loading' = TRUE
            /\ panelPc' = "uploadDocument"
            /\ UNCHANGED <<appDoc, analysis, toast>>
       ELSE /\ LET sample == findSample(sampleId[1])
               IN IF sample # None
                    THEN /\ appDoc' = sample
                         /\ analysis' = Some(mockAnalysis(sample[1]))
                         /\ toast' = Some("Sample Loaded")
                    ELSE UNCHANGED <<appDoc, analysis, toast>>
            /\ loading' = FALSE
            /\ panelPc' = "idle"
  /\ UNCHANGED <<all, now, held, variant, chatVars, queryVars, analyzeVars, file, sampleId, currentDocumentId, uploadResponse>>

\* lines 30-34 and 77-86: the upload settles
UploadDocumentSettles ==
  /\ panelPc = "uploadDocument"
  /\ \E r \in UploadOutcomes :
       IF r = None
         THEN /\ toast' = Some("Error")
              /\ loading' = FALSE
              /\ panelPc' = "idle"
              /\ UNCHANGED <<uploadResponse, currentDocumentId>>
         ELSE /\ uploadResponse' = r
              /\ currentDocumentId' = Some(r[1].document_id)
              /\ panelPc' = "analyzeDocument"
              /\ UNCHANGED <<toast, loading>>
  /\ UNCHANGED <<all, now, held, variant, chatVars, queryVars, analyzeVars, file, sampleId, appDoc, analysis>>

\* lines 34-46 and 77-86: the analysis settles
AnalyzeDocumentSettles ==
  /\ panelPc = "analyzeDocument"
  /\ \E r \in AnalyzeOutcomes :
       IF r # None /\ r[1].success /\ r[1].analysis # None
         THEN /\ appDoc' = Some(r[1].analysis[1].doc)
              /\ analysis' = r[1].analysis
              /\ toast' = Some("Success")
         ELSE /\ toast' = Some("Error")
              /\ UNCHANGED <<appDoc, analysis>>
  /\ loading' = FALSE
  /\ panelPc' = "idle"
  /\ UNCHANGED <<all, now, held, variant, chatVars, queryVars, analyzeVars, file, sampleId, currentDocumentId, uploadResponse>>

PanelNext ==
  \/ SetFile
  \/ SetSampleId
  \/ HandleProcess
  \/ UploadDocumentSettles
  \/ AnalyzeDocumentSettles

SpecPanel == PanelInit /\ [][PanelNext]_vars

(***************************************************************************)
(* src/unnamed/part_004: the version of UploadPanel that validates the     *)
(* file and asks for the document's status before the analysis             *)
(***************************************************************************)
\* line 39: const maxSize = 10 * 1024 * 1024
maxSize == 10 * 1024 * 1024

\* file.size of the files a user picks: at the limit and just over it
FileSizes == {maxSize, maxSize + 1}
SizedFiles == {f @@ [size |-> n] : f \in PanelFiles, n \in FileSizes}

\* lines 81-96: the analysis this version makes up for a sample
mockAnalysis_004(sample) ==
  [doc |-> sample,
   risks |->
     [byCategory |->
        <<[category |-> "Financial", score |-> 25], [category |-> "Legal", score |-> 30],
          [category |-> "Compliance", score |-> 20], [category |-> "Termination", score |-> 15]>>,
      recommendations |->
        <<"Standard terms detected", "Consider legal review for compliance",
          "Monitor termination clauses">>]]

\* what the backend may answer to /api/documents/{id}: a failure (None), or a
\* response with the processing status of the document
DocInfoOutcomes ==
  {None} \cup {Some([success |-> ok, document_info |-> [processing_status |-> st]]) :
                 ok \in BOOLEAN, st \in {"completed", "failed"}}

\* line 133: onChange={(e) => setFile(e.target.files?.[0])}
SetFile_004 ==
  /\ variant = "part_004"
  /\ \E f \in {None} \cup {Some(x) : x \in SizedFiles} : file' = f
  /\ UNCHANGED <<all, now, held, variant, chatVars, queryVars, analyzeVars, sampleId, loading,
                 currentDocumentId, panelPc, uploadResponse, appDoc, analysis, toast>>

\* line 144: <Select onValueChange={setSampleId}> over the ids of the samples
SetSampleId_004 ==
  /\ variant = "part_004"
  /\ \E k \in 1..Len(samples) : sampleId' = Some(Deref(samples[k]).id)
  /\ UNCHANGED <<all, now, held, variant, chatVars, queryVars, analyzeVars, file, loading,
                 currentDocumentId, panelPc, uploadResponse, appDoc, analysis, toast>>

\* handleProcess that resets loading at the end of its try block and not in a
\* finally block: what is thrown leaves loading set
HandleProcess_004_NoFinally ==
  /\ variant = "part_004"
  /\ panelPc = "idle"
  /\ ~(loading \/ (file = None /\ ~Truthy(sampleId)))
  /\ IF file = None /\ ~Truthy(sampleId)
       THEN /\ toast' = Some("Error")
            /\ UNCHANGED <<loading, panelPc, appDoc, analysis>>
       ELSE IF file # None
         THEN IF file[1].size > maxSize
                THEN /\ toast' = Some("Error")
                     /\ loading' = TRUE
                     /\ panelPc' = "idle"
                     /\ UNCHANGED <<appDoc, analysis>>
                ELSE /\ loading' = TRUE
                     /\ panelPc' = "uploadDocument"
                     /\ UNCHANGED <<appDoc, analysis, toast>>
         ELSE /\ LET sample == findSample(sampleId[1])
                 IN IF sample = None
                      THEN /\ toast' = Some("Error")
                           /\ loading' = TRUE
                           /\ UNCHANGED <<appDoc, analysis>>
                      ELSE /\ appDoc' = sample
                           /\ analysis' = Some(mockAnalysis_004(sample[1]))
                           /\ toast' = Some("Sample Loaded")
                           /\ loading' = FALSE
              /\ panelPc' = "idle"
  /\ UNCHANGED <<all, now, held, variant, chatVars, queryVars, analyzeVars, file, sampleId,
                 currentDocumentId, uploadResponse>>
\* lines 24-45, 72-115 and 158-162: a click on the enabled Process button runs
\* handleProcess up to its first await; a file over the limit and the sample branch
\* run to the end, through the catch block or not, and through the finally block;
\* lines 25-32 run only with no file and no sample, when the button is disabled
HandleProcess_004 ==
  /\ variant = "part_004"
  /\ panelPc = "idle"
  /\ ~(loading \/ (file = None /\ ~Truthy(sampleId)))
  /\ IF file = None /\ ~Truthy(sampleId)
       THEN /\ toast' = Some("Error")
            /\ UNCHANGED <<loading, panelPc, appDoc, analysis>>
       ELSE IF file # None
         THEN IF file[1].size > maxSize
                THEN /\ toast' = Some("Error")
                     /\ loading' = FALSE
                     /\ panelPc' = "idle"
                     /\ UNCHANGED <<appDoc, analysis>>
                ELSE /\ loading' = TRUE
                     /\ panelPc' = "uploadDocument"
                     /\ UNCHANGED <<appDoc, analysis, toast>>
         ELSE /\ LET sample == findSample(sampleId[1])
                 IN IF sample = None
                      THEN /\ toast' = Some("Error")
                           /\ UNCHANGED <<appDoc, analysis>>
                      ELSE /\ appDoc' = sample
                           /\ analysis' = Some(mockAnalysis_004(sample[1]))
                           /\ toast' = Some("Sample Loaded")
              /\ loading' = FALSE
              /\ panelPc' = "idle"
  /\ UNCHANGED <<all, now, held, variant, chatVars, queryVars, analyzeVars, file, sampleId,
                 currentDocumentId, uploadResponse>>

\* lines 45-53 and 105-114: the upload settles
UploadDocumentSettles_004 ==
  /\ variant = "part_004"
  /\ panelPc = "uploadDocument"
  /\ \E r \in UploadOutcomes :
       IF r = None \/ ~r[1].success
         THEN /\ toast' = Some("Error")
              /\ loading' = FALSE
              /\ panelPc' = "idle"
              /\ UNCHANGED <<uploadResponse, currentDocumentId>>
         ELSE /\ uploadResponse' = r
              /\ currentDocumentId' = Some(r[1].document_id)
              /\ panelPc' = "getDocumentInfo"
              /\ UNCHANGED <<toast, loading>>
  /\ UNCHANGED <<all, now, held, variant, chatVars, queryVars, analyzeVars, file, sampleId,
                 appDoc, analysis>>

\* lines 53-59 and 105-114: the document's status is there
GetDocumentInfoSettles ==
  /\ variant = "part_004"
  /\ panelPc = "getDocumentInfo"
  /\ \E r \in DocInfoOutcomes :
       IF r = None \/ ~r[1].success \/ r[1].document_info.processing_status = "failed"
         THEN /\ toast' = Some("Error")
              /\ loading' = FALSE
              /\ panelPc' = "idle"
         ELSE /\ panelPc' = "analyzeDocument"
              /\ UNCHANGED <<toast, loading>>
  /\ UNCHANGED <<all, now, held, variant, chatVars, queryVars, analyzeVars, file, sampleId,
                 currentDocumentId, uploadResponse, appDoc, analysis>>

\* lines 59-71 and 105-114: the analysis settles
AnalyzeDocumentSettles_004 ==
  /\ variant = "part_004"
  /\ panelPc = "analyzeDocument"
  /\ \E r \in AnalyzeOutcomes :
       IF r = None \/ ~r[1].success \/ r[1].analysis = None
         THEN /\ toast' = Some("Error")
              /\ UNCHANGED <<appDoc, analysis>>
         ELSE /\ appDoc' = Some(r[1].analysis[1].doc)
              /\ analysis' = r[1].analysis
              /\ toast' = Some("Success")
  /\ loading' = FALSE
  /\ panelPc' = "idle"
  /\ UNCHANGED <<all, now, held, variant, chatVars, queryVars, analyzeVars, file, sampleId,
                 currentDocumentId, uploadResponse>>

\* the versions of the upload panel
PanelVariants == {"upload-panel.tsx", "part_004"}

PanelFairInit ==
  /\ all = SampleStore
  /\ held = None
  /\ now \in Timestamps
  /\ input = NoInput
  /\ pc = "notCalled"
  /\ NoCall
  /\ PanelIdle
  /\ variant \in PanelVariants
  /\ ChatIdle
  /\ NoQuery

\* the steps of the panel of upload-panel.tsx
PanelSteps == variant = "upload-panel.tsx" /\ PanelNext

\* a pending request is rejected: what each await of handleProcess does when its
\* fetch fails (the outcome None of UploadDocumentSettles, GetDocumentInfoSettles and
\* AnalyzeDocumentSettles in both versions): the catch block shows the error and the
\* finally block resets loading
RequestRejected ==
  /\ panelPc # "idle"
  /\ toast' = Some("Error")
  /\ loading' = FALSE
  /\ panelPc' = "idle"
  /\ UNCHANGED <<all, now, held, variant, chatVars, queryVars, analyzeVars, file, sampleId,
                 currentDocumentId, uploadResponse, appDoc, analysis>>

PanelFairNext ==
  \/ PanelSteps
  \/ SetFile_004
  \/ SetSampleId_004
  \/ HandleProcess_004
  \/ UploadDocumentSettles_004
  \/ GetDocumentInfoSettles
  \/ AnalyzeDocumentSettles_004

\* no fetch stays pending for ever: a request that is not answered is given up by
\* the browser and rejected, and the event loop then runs what awaits it
SpecPanelFair == PanelFairInit /\ [][PanelFairNext]_vars /\ WF_vars(RequestRejected)

(***************************************************************************)
(* A caller that keeps the result of one analyzeDocument call, calls again  *)
(* and writes to the document it was given.  parseSample returns all[id],   *)
(* the stored object itself (part_000 line 26), and analyzeDocument puts    *)
(* that object into its result (analysis.ts line 193).                      *)
(***************************************************************************)
\* the inputs of the caller's calls
SharedInputs ==
  {[file |-> None, sampleId |-> Some(id), langHint |-> None] :
     id \in {"sample-en-rental", "sample-hi-rental"}}
  \cup {[file |-> Some(f), sampleId |-> None, langHint |-> None] :
          f \in {x \in Files : x.name = "lease.txt" /\ x.content = "Lessor shall pay rent. "}}

\* what the caller writes into a document it holds: doc.title = "edited"
Edited(d) == [d EXCEPT !.title = "edited"]

SharedInit ==
  /\ all = SampleStore
  /\ held = None
  /\ now \in Timestamps
  /\ input \in SharedInputs
  /\ pc = "start"
  /\ NoCall
  /\ PanelIdle
  /\ variant = "upload-panel.tsx"
  /\ ChatIdle
  /\ NoQuery

\* the caller keeps the result it was given and calls analyzeDocument again; the
\* object the finished call built lives on as the caller's own
CallAgain ==
  /\ pc = "resolved"
  /\ held' = Some([doc |-> IF result[1].doc = <<"fresh">> THEN <<"earlier", fresh[1]>>
                           ELSE result[1].doc,
                   risks |-> result[1].risks])
  /\ \E i \in SharedInputs : input' = i
  /\ pc' = "start"
  /\ text' = None /\ ocrText' = None /\ fresh' = None /\ doc' = None
  /\ result' = None /\ error' = None /\ invoked' = <<>>
  /\ UNCHANGED <<all, now, panelVars, variant, chatVars, queryVars>>

\* the caller assigns to a field of the document of the result it holds, at any
\* point of the later call: the write lands in the object the reference points to
ModifyReturnedDoc ==
  /\ held # None
  /\ LET ref == held[1].doc
     IN IF ref[1] = "sample"
          THEN /\ all' = [all EXCEPT ![ref[2]] = Edited(all[ref[2]])]
               /\ held' = held
          ELSE /\ held' = Some([held[1] EXCEPT !.doc = <<"earlier", Edited(ref[2])>>])
               /\ all' = all
  /\ UNCHANGED <<now, analyzeVars, panelVars, variant, chatVars, queryVars>>

SharedNext ==
  \/ Dispatch
  \/ ParseSample
  \/ ReadFileText
  \/ SimulateOCR
  \/ BasicExtract
  \/ ComputeRisk
  \/ CallAgain
  \/ ModifyReturnedDoc

SpecShared == SharedInit /\ [][SharedNext]_vars

(***************************************************************************)
(* src/unnamed/part_002: ChatPanel.  The file holds two versions of the     *)
(* component: lines 1-129 await answer(q) and keep a loading flag, lines    *)
(* 131-225 answer in the submit handler itself.                            *)
(***************************************************************************)
\* src/context/app-context.tsx line 21: useState<LanguageCode>("en"); no code of the
\* sources calls setLanguage
language == "en"

\* src/context/app-context.tsx lines 37-72: the canned questions and answers of the
\* language; the tables of hi and mr have four items each as well
qa ==
  [en |->
     <<[q |-> "What is the notice period?",
        a |-> "Typically 30 days unless otherwise stated in the Termination clause."],
       [q |-> "Are there any penalties?",
        a |-> "Yes, late payment penalties may apply. See Payment Terms."],
       [q |-> "Who bears liability?",
        a |-> "Liability may be allocated to the tenant or vendor depending on clauses."],
       [q |-> "Is there arbitration?",
        a |-> "Yes, disputes may be resolved by binding arbitration."]>>]

\* part_002 line 22: const examples = qa[language]
examples == qa[language]

\* getDictionary(language).original: the label of the original text of a clause
original == "Original"

\* a run of white space becomes one space, computed by halves
RECURSIVE collapseSpaces(_)
collapseSpaces(s) ==
  IF Len(s) <= 1 THEN (IF IsSpace(s) THEN " " ELSE s)
  ELSE LET h == Len(s) \div 2
           l == collapseSpaces(SubSeq(s, 1, h))
           r == collapseSpaces(SubSeq(s, h + 1, Len(s)))
       IN IF CharAt(l, Len(l)) = " " /\ CharAt(r, 1) = " "
            THEN l \o SubSeq(r, 2, Len(r))
            ELSE l \o r

\* part_002 lines 123-125: s.toLowerCase().replace(/\s+/g, " ").trim()
normalize(s) == trim(collapseSpaces(toLowerCase(s)))

\* the decimal digits of a natural number
RECURSIVE decimal(_)
decimal(n) == IF n < 10 THEN CharAt(Digits, n + 1) ELSE decimal(n \div 10) \o CharAt(Digits, (n % 10) + 1)

\* the string a template such as "Clause " + i stands for
templateString(tpl) == tpl[1] \o decimal(tpl[2])

\* part_002 lines 127-129
serializeClause(c) == templateString(c.title) \o " " \o c.originalText \o " " \o c.simplifiedText

\* arr.find(pred) over the positions of arr: the first hit, if any
findFirst(hits) == IF hits = {} THEN None ELSE Some(Min(hits))

\* part_002 lines 33-44 with the last answer of that version, and lines 150-161
\* with the last answer of the other: the lookup in the canned examples, the
\* clauses of the analysed document and its summary
localAnswer(q, noContext) ==
  LET found == findFirst({k \in 1..Len(examples) :
                            \/ includes(normalize(examples[k].q), normalize(q))
                            \/ includes(normalize(q), normalize(examples[k].q))})
  IN IF found # None THEN examples[found[1]].a
     ELSE IF analysis # None
       THEN LET d == Deref(analysis[1].doc)
                clause == findFirst({k \in 1..Len(d.clauses) :
                                       includes(normalize(serializeClause(d.clauses[k])), normalize(q))})
            IN IF clause # None
                 THEN d.clauses[clause[1]].simplifiedText \o "\n\n" \o original \o ": "
                      \o d.clauses[clause[1]].originalText
                 ELSE d.summary
       ELSE noContext

\* what the user types into the form's input
TypedValues == {"   ", " Late  FEE ", "who bears liability"}

\* what the backend may answer to /api/qa: a failure (None), or a response
QAOutcomes == {None, Some([success |-> TRUE, answer |-> "The late fee is 500."])}

\* the pairs of messages the list may hold at most
MaxPairs == 2

\* { role, content }
Msg(role, content) == [role |-> role, content |-> content]

\* the versions of the chat panel: lines 1-129 and lines 131-225
ChatVariants == {"await", "direct"}

\* the upload panel after handleProcess has uploaded the file f and has had it
\* analysed: the state AnalyzeDocumentSettles leaves after UploadDocumentSettles
\* took the response r and the analysis was an
Uploaded(f, r, an) ==
  /\ file = Some(f) /\ sampleId = None /\ loading = FALSE
  /\ currentDocumentId = Some(r.document_id) /\ panelPc = "idle" /\ uploadResponse = Some(r)
  /\ appDoc = Some(an.doc) /\ analysis = Some(an) /\ toast = Some("Success")

\* the chat panel is mounted next to an upload panel that has not run yet, or that
\* has uploaded a file and has had it analysed
ChatInit ==
  /\ all = SampleStore
  /\ held = None
  /\ now \in Timestamps
  /\ input = NoInput
  /\ pc = "notCalled"
  /\ NoCall
  /\ \/ PanelIdle
     \/ \E f \in {x \in PanelFiles : x.type = "text/plain"},
           r \in {x \in UploadOutcomes : x # None /\ x[1].success /\ x[1].document_id = "d-1"},
           a \in {x \in AnalyzeOutcomes : x # None /\ x[1].success /\ x[1].analysis # None} :
          Uploaded(f, r[1], a[1].analysis[1])
  /\ variant = "upload-panel.tsx"
  /\ chatVariant \in ChatVariants
  /\ messages = <<>> /\ chatLoading = FALSE /\ inputValue = "" /\ chatDocumentId = None
  /\ chatCall = None
  /\ NoQuery

\* lines 81 and 182: the user types into the input, which lines 81-82 disable
\* while loading
TypeQuestion ==
  /\ ~chatLoading
  /\ \E v \in TypedValues : inputValue' = v
  /\ UNCHANGED <<all, now, held, variant, analyzeVars, panelVars, queryVars, chatVariant,
                 messages, chatLoading, chatDocumentId, chatCall>>

\* onSend with the user's message shown at once, before the answer is there
OnSend_UserFirst ==
  /\ chatVariant = "await"
  /\ ~chatLoading /\ chatCall = None
  /\ Len(messages) + 2 <= 2 * MaxPairs
  /\ LET q == trim(inputValue)
     IN IF q = ""
          THEN UNCHANGED <<chatLoading, chatCall, messages>>
          ELSE /\ chatLoading' = TRUE
               /\ messages' = messages \o <<Msg("user", q)>>
               /\ chatCall' =
                    Some([q |-> q, document_id |-> chatDocumentId,
                          a |-> IF chatDocumentId # None THEN None
                                ELSE Some(localAnswer(q, "No context available. Please upload a document first."))])
  /\ UNCHANGED <<all, now, held, variant, analyzeVars, panelVars, queryVars, chatVariant,
                 inputValue, chatDocumentId>>
\* lines 51-60 and 24-44: the form is submitted (its button is disabled while
\* loading); onSend runs up to its await of answer(q), and answer(q) up to its
\* await of askQuestion, or to its end when the panel holds no document id
OnSend ==
  /\ chatVariant = "await"
  /\ ~chatLoading /\ chatCall = None
  /\ Len(messages) + 2 <= 2 * MaxPairs
  /\ LET q == trim(inputValue)
     IN IF q = ""
          THEN UNCHANGED <<chatLoading, chatCall>>
          ELSE /\ chatLoading' = TRUE
               /\ chatCall' =
                    Some([q |-> q, document_id |-> chatDocumentId,
                          a |-> IF chatDocumentId # None THEN None
                                ELSE Some(localAnswer(q, "No context available. Please upload a document first."))])
  /\ UNCHANGED <<all, now, held, variant, analyzeVars, panelVars, queryVars, chatVariant,
                 messages, inputValue, chatDocumentId>>

\* lines 28-29, 45-48 and 60-71: the awaited answer is there; a request that
\* failed is answered with an apology
AnswerSettles ==
  /\ chatVariant = "await"
  /\ chatCall # None
  /\ \E r \in (IF chatCall[1].document_id # None THEN QAOutcomes ELSE {None}) :
       LET a == IF chatCall[1].a # None THEN chatCall[1].a[1]
                ELSE IF r # None THEN r[1].answer
                ELSE "I'm sorry, I couldn't process your question at the moment. Please try again."
       IN messages' = messages \o <<Msg("user", chatCall[1].q), Msg("assistant", a)>>
  /\ inputValue' = ""
  /\ chatLoading' = FALSE
  /\ chatCall' = None
  /\ UNCHANGED <<all, now, held, variant, analyzeVars, panelVars, queryVars, chatVariant,
                 chatDocumentId>>

\* lines 164-173: the other version answers in the submit handler
OnSendDirect ==
  /\ chatVariant = "direct"
  /\ Len(messages) + 2 <= 2 * MaxPairs
  /\ LET q == trim(inputValue)
     IN IF q = ""
          THEN UNCHANGED <<messages, inputValue>>
          ELSE /\ messages' = messages \o <<Msg("user", q),
                                            Msg("assistant", localAnswer(q, "No context available."))>>
               /\ inputValue' = ""
  /\ UNCHANGED <<all, now, held, variant, analyzeVars, panelVars, queryVars, chatVariant,
                 chatLoading, chatDocumentId, chatCall>>

\* lines 89-105 and 188-204: a click on one of the first three examples; the buttons
\* are never disabled.  A click is allowed while answer(q) is awaited, whether or
\* not a request is in flight
ClickExample ==
  /\ Len(messages) + (IF chatVariant = "await" /\ chatCall # None THEN 2 ELSE 0) + 2 <= 2 * MaxPairs
  /\ \E i \in 1..Len(sliceArr(examples, 3)) :
       messages' = messages \o <<Msg("user", examples[i].q), Msg("assistant", examples[i].a)>>
  /\ UNCHANGED <<all, now, held, variant, analyzeVars, panelVars, queryVars, chatVariant,
                 chatLoading, inputValue, chatDocumentId, chatCall>>

ChatNext ==
  \/ TypeQuestion
  \/ OnSend
  \/ AnswerSettles
  \/ OnSendDirect
  \/ ClickExample

SpecChat == ChatInit /\ [][ChatNext]_vars

(***************************************************************************)
(* src/backend/queryAnswering.ts: answerQuery, one action per event of the  *)
(* spawned process                                                         *)
(***************************************************************************)
\* what the script writes to its standard output, chunk by chunk
StdoutChunks == {" a", "b\n", "ok"}

\* what the script writes to its standard error, chunk by chunk
StderrChunks == {"E1", "E2"}

\* the characters collected of each stream before the last chunk arrives
MaxOutput == 3

\* the code of the close event: 0, another exit code, or null after a signal
ExitCodes == {Some(0), Some(1), None}

\* lines 4-19: the state when answerQuery returns its promise: the process is
\* spawned, the input is written, the listeners of data and close are there
QueryInit ==
  /\ all = SampleStore
  /\ held = None
  /\ now \in Timestamps
  /\ input = NoInput
  /\ pc = "notCalled"
  /\ NoCall
  /\ PanelIdle
  /\ variant = "upload-panel.tsx"
  /\ ChatIdle
  /\ child = <<"spawned">> /\ output = "" /\ errorOutput = "" /\ promise = <<"pending">>

\* lines 13-15: pythonProcess.stdout.on('data', ...)
StdoutData ==
  /\ child \in {<<"spawned">>, <<"running">>}
  /\ Len(output) <= MaxOutput
  /\ \E data \in StdoutChunks : output' = output \o data
  /\ child' = <<"running">>
  /\ UNCHANGED <<all, now, held, variant, chatVars, analyzeVars, panelVars, errorOutput, promise>>

\* lines 17-19: pythonProcess.stderr.on('data', ...)
StderrData ==
  /\ child \in {<<"spawned">>, <<"running">>}
  /\ Len(errorOutput) <= MaxOutput
  /\ \E data \in StderrChunks : errorOutput' = errorOutput \o data
  /\ child' = <<"running">>
  /\ UNCHANGED <<all, now, held, variant, chatVars, analyzeVars, panelVars, output, promise>>

\* lines 21-28: pythonProcess.on('close', (code) => ...), emitted once, after the
\* process has ended and its streams are closed
Close ==
  /\ child \in {<<"spawned">>, <<"running">>}
  /\ \E code \in ExitCodes :
       /\ child' = <<"closed", code>>
       /\ promise' = IF code # Some(0)
                       THEN <<"rejected", "Python script failed: " \o errorOutput>>
                       ELSE <<"resolved", trim(output)>>
  /\ UNCHANGED <<all, now, held, variant, chatVars, analyzeVars, panelVars, output, errorOutput>>

\* line 5: the process cannot be started (no python on the path): the child emits
\* 'error' and no 'close'; answerQuery registers no listener of 'error', so the
\* event is thrown as an uncaught exception, and nothing settles the promise,
\* whether the exception ends the server or is swallowed by a handler of the host
SpawnFails ==
  /\ child = <<"spawned">>
  /\ child' = <<"failed">>
  /\ UNCHANGED <<all, now, held, variant, chatVars, analyzeVars, panelVars, output, errorOutput,
                 promise>>

QueryNext ==
  \/ StdoutData
  \/ StderrData
  \/ Close
  \/ SpawnFails

SpecQuery == QueryInit /\ [][QueryNext]_vars

(***************************************************************************)
(* Properties                                                              *)
(***************************************************************************)
\* the functions called so far
Calls == {invoked[k] : k \in 1..Len(invoked)}

\* how often a function was called
TimesCalled(f) == Cardinality({k \in 1..Len(invoked) : invoked[k] = f})

\* the call has settled
Finished == pc \in {"resolved", "rejected"}

SampleMode == Truthy(input.sampleId)
FileSupplied == input.file # None
KnownSample == SampleMode /\ input.sampleId[1] \in SampleIdSet

\* the document of the returned AnalysisResult
ResultDoc == Deref(result[1].doc)

\* a file analysis has returned
FileResult == pc = "resolved" /\ result # None /\ result[1].doc = <<"fresh">>

\* the text a file analysis extracts its facts from
AnalysedText ==
  LET content == text[1] \o (IF ocrText[1] = "" THEN "" ELSE "\n" \o ocrText[1])
  IN IF content = "" THEN "Sample Agreement" ELSE content

\* the word (in lower case) occurs in s in some letter case
MentionsAnyCase(s, word) ==
  \E i \in 1..(Len(s) - Len(word) + 1) :
    \A j \in 1..Len(word) : LowerChar(CharAt(s, i + j - 1)) = CharAt(word, j)

\* the functions of the extraction pipeline
PipelineFunctions ==
  {"parseUploaded", "readFileText", "simulateOCR", "detectLanguageBySample", "basicExtract",
   "extractObligations", "splitClauses", "simplifyText", "categorizeClause",
   "scoreRiskForClause", "summarize", "findNotes"}

\* C1 (as claimed): a call with neither a file nor a sampleId, or with a sampleId
\* that is not a stored sample's id, is rejected with the input error by the step
\* that finds the input bad: it never resolves, returns no result, never runs
\* computeRisk, and calls nothing twice.
C1_BadInputRejected ==
  ((~FileSupplied /\ ~SampleMode) \/ (SampleMode /\ ~KnownSample)) =>
    /\ result = None
    /\ pc \in {"start", "parseSample", "rejected"}
    /\ "computeRisk" \notin Calls
    /\ \A f \in Calls : TimesCalled(f) = 1
    /\ pc = "rejected" => error \in {Some("No document input provided"), Some("Sample not found")}

\* C2 (as claimed): every settled call has run exactly one of parseSample and
\* parseUploaded.
C2_ExactlyOneModeInEveryCall ==
  Finished => Cardinality(Calls \cap {"parseSample", "parseUploaded"}) = 1

\* C2 (amended): parseSample and parseUploaded never both run in a call and the
\* result is the document of the one that ran; a settled call has run exactly one
\* of them when a file or a non-empty sampleId was supplied and none when neither
\* was; with a non-empty sampleId the file is never read.
C2_ModesExclusive ==
  /\ Cardinality(Calls \cap {"parseSample", "parseUploaded"}) <= 1
  /\ Finished =>
       Cardinality(Calls \cap {"parseSample", "parseUploaded"})
         = (IF FileSupplied \/ SampleMode THEN 1 ELSE 0)
  /\ SampleMode =>
       /\ Calls \cap {"parseUploaded", "readFileText", "simulateOCR", "basicExtract"} = {}
       /\ text = None /\ ocrText = None /\ fresh = None
       /\ result # None => result[1].doc[1] = "sample"
  /\ ~SampleMode => "parseSample" \notin Calls /\ (result # None => result[1].doc = <<"fresh">>)

C2_BothSuppliedSampleRan ==
  /\ pc = "resolved"
  /\ FileSupplied /\ KnownSample
  /\ "parseSample" \in Calls

\* C3: in a call with the id of a stored sample no function of the extraction
\* pipeline is ever called and no document is built; the doc of the result is the
\* stored sample itself, equal to it in every field, whatever the langHint.
C3_SampleBypassesPipeline ==
  KnownSample =>
    /\ Calls \cap PipelineFunctions = {}
    /\ fresh = None
    /\ doc # None => doc = Some(<<"sample", input.sampleId[1]>>)
    /\ pc = "resolved" =>
         /\ result[1].doc = <<"sample", input.sampleId[1]>>
         /\ ResultDoc = SampleStore[input.sampleId[1]]

C3_SampleReturnedDespiteHint ==
  /\ pc = "resolved"
  /\ input.sampleId = Some("sample-en-rental")
  /\ input.langHint = Some("mr")
  /\ FileSupplied
  /\ ResultDoc.language = "en"

\* C4 (as claimed): the risks of every AnalysisResult, the one analyzeDocument
\* returns and the one the upload panel sets for a selected sample, are
\* computeRisk of that result's doc.
C4_RisksRecomputed ==
  /\ result # None => result[1].risks = computeRisk(ResultDoc)
  /\ (analysis # None /\ analysis[1].doc[1] = "sample") =>
       analysis[1].risks = computeRisk(Deref(analysis[1].doc))

LessorPair == <<[name |-> "Lessor", role |-> "Lessor"], [name |-> "Lessee", role |-> "Lessee"]>>
GenericPair == <<[name |-> "Party A", role |-> "PartyA"], [name |-> "Party B", role |-> "PartyB"]>>

\* C5: every returned document has at least two parties; the parties of a file
\* analysis are the Lessor/Lessee pair when the text mentions lessor or lessee
\* in any letter case, and the Party A/Party B pair otherwise.
C5_Parties ==
  pc = "resolved" =>
    /\ Len(ResultDoc.parties) >= 2
    /\ FileResult =>
         ResultDoc.parties =
           (IF MentionsAnyCase(AnalysedText, "lessor") \/ MentionsAnyCase(AnalysedText, "lessee")
            THEN LessorPair ELSE GenericPair)

C5_UpperCaseCue ==
  /\ FileResult
  /\ includes(AnalysedText, "LESSEE")
  /\ ~includes(AnalysedText, "lessee") /\ ~includes(AnalysedText, "lessor")
  /\ ResultDoc.parties = LessorPair

\* C6: every returned document has at most 8 clauses and at most 6 obligations.
C6_ClausesAndObligationsBounded ==
  pc = "resolved" => Len(ResultDoc.clauses) <= 8 /\ Len(ResultDoc.obligations) <= 6

C6_LongTextTruncated ==
  /\ FileResult
  /\ includes(AnalysedText, "P9 shall")
  /\ Len(ResultDoc.clauses) = 8
  /\ Len(ResultDoc.obligations) = 6

\* C7: byCategory of every RiskOverview has exactly four entries, one for each of
\* Financial, Legal, Compliance and Termination, each with an integer score in 0..100.
C7_FourScoresInRange ==
  result # None =>
    LET byCategory == result[1].risks.byCategory
    IN /\ Len(byCategory) = 4
       /\ {byCategory[k].category : k \in 1..Len(byCategory)}
            = {"Financial", "Legal", "Compliance", "Termination"}
       /\ \A k \in 1..Len(byCategory) : byCategory[k].score \in 0..100

C7_UnclassifiedAndScored ==
  /\ result # None
  /\ \E k \in 1..Len(ResultDoc.clauses) :
       ~HasField(ResultDoc.clauses[k], "category") /\ ~HasField(ResultDoc.clauses[k], "riskLevel")
  /\ \E k \in 1..4 : result[1].risks.byCategory[k].score = 85
  /\ \E k \in 1..4 : result[1].risks.byCategory[k].score = 10

PositionIn(recs, r) ==
  IF \E k \in 1..Len(recs) : recs[k] = r THEN Min({k \in 1..Len(recs) : recs[k] = r}) ELSE 0

\* C9: the recommendations of a RiskOverview are never empty: they are the single
\* fallback exactly when no check triggers, and otherwise the recommendations of
\* the checks that trigger, each once, in the order arbitration, termination,
\* financial penalties, missing effective date, without the fallback.
C9_Recommendations ==
  result # None =>
    LET recs == result[1].risks.recommendations
        texts == {ResultDoc.clauses[k].originalText : k \in 1..Len(ResultDoc.clauses)}
        triggered ==
          [r \in {RecArbitration, RecTermination, RecPenalties, RecMissingDate} |->
             CASE r = RecArbitration -> \E t \in texts : MentionsAnyCase(t, "arbitration")
               [] r = RecTermination -> \E t \in texts : MentionsAnyCase(t, "termination")
               [] r = RecPenalties ->
                    \E t \in texts : MentionsAnyCase(t, "penalty") \/ MentionsAnyCase(t, "late fee")
               [] r = RecMissingDate -> ResultDoc.effectiveDate \in {None, Some("")}]
        order == <<RecArbitration, RecTermination, RecPenalties, RecMissingDate>>
    IN /\ Len(recs) >= 1
       /\ (recs = <<RecFallback>>) <=> (\A r \in DOMAIN triggered : ~triggered[r])
       /\ (\E r \in DOMAIN triggered : triggered[r]) =>
            /\ \A r \in DOMAIN triggered : triggered[r] <=> PositionIn(recs, r) > 0
            /\ \A k \in 1..Len(recs) : recs[k] \in DOMAIN triggered
            /\ \A j, k \in 1..Len(recs) : j < k => recs[j] # recs[k]
            /\ \A j, k \in 1..4 :
                 (j < k /\ PositionIn(recs, order[j]) > 0 /\ PositionIn(recs, order[k]) > 0)
                   => PositionIn(recs, order[j]) < PositionIn(recs, order[k])

C9_FallbackOnly ==
  /\ result # None
  /\ ResultDoc.clauses # <<>>
  /\ result[1].risks.recommendations = <<RecFallback>>

\* C10: the simplifiedText of every clause of a file analysis has at most 261
\* characters.
C10_SimplifiedTextBounded ==
  FileResult =>
    \A k \in 1..Len(ResultDoc.clauses) : Len(ResultDoc.clauses[k].simplifiedText) <= SimplifiedMax + 1

C10_LongClauseRewritten ==
  /\ FileResult
  /\ \E k \in 1..Len(ResultDoc.clauses) :
       /\ Len(ResultDoc.clauses[k].originalText) > SimplifiedMax
       /\ includes(ResultDoc.clauses[k].originalText, "force majeure")
       /\ includes(ResultDoc.clauses[k].simplifiedText, "from now on")
       /\ Len(ResultDoc.clauses[k].simplifiedText) = SimplifiedMax + 1

\* the values of Clause.category and Clause.riskLevel (src/lib/types.ts)
Categories == {"Financial", "Legal", "Compliance", "Termination", "General"}
RiskLevels == {"Low", "Medium", "High"}

\* C11: every clause of every returned AnalysisResult has a category among Financial,
\* Legal, Compliance, Termination, General and a riskLevel among Low, Medium, High.
C11_EveryClauseClassified ==
  pc = "resolved" =>
    \A k \in 1..Len(ResultDoc.clauses) :
      LET c == ResultDoc.clauses[k]
      IN /\ HasField(c, "category") /\ c.category \in Categories
         /\ HasField(c, "riskLevel") /\ c.riskLevel \in RiskLevels

\* a file analysis returned a clause in which no keyword of any table was found
C11_PlainClauseClassified ==
  /\ FileResult
  /\ \E k \in 1..Len(ResultDoc.clauses) :
       /\ ResultDoc.clauses[k].originalText = "plain words"
       /\ ResultDoc.clauses[k].category = "General"
       /\ ResultDoc.clauses[k].riskLevel = "Low"

\* the text read from the file, with the text of the OCR stand-in appended
ExtractedText == text[1] \o (IF ocrText[1] = "" THEN "" ELSE "\n" \o ocrText[1])

HasDevanagari(t) == \E i \in 1..Len(t) : CharAt(t, i) \in Devanagari
HasHindiCue(t) == \E k \in 1..Len(HindiCues) : includes(t, HindiCues[k])
HasMarathiCue(t) == \E k \in 1..Len(MarathiCues) : includes(t, MarathiCues[k])

\* C12: the language of a file analysis is one of en, hi, mr: the langHint when one is
\* given; otherwise en for text without a Devanagari character, else hi when a Hindi
\* cue occurs, else mr when a Marathi cue occurs, else hi.
C12_Language ==
  FileResult =>
    /\ ResultDoc.language \in LanguageCodes
    /\ ResultDoc.language =
         IF input.langHint # None THEN input.langHint[1]
         ELSE IF ~HasDevanagari(ExtractedText) THEN "en"
         ELSE IF HasHindiCue(ExtractedText) THEN "hi"
         ELSE IF HasMarathiCue(ExtractedText) THEN "mr"
         ELSE "hi"

\* a text with cue words of both languages was analysed without a hint
C12_BothCuesHindi ==
  /\ FileResult
  /\ input.langHint = None
  /\ HasHindiCue(ExtractedText) /\ HasMarathiCue(ExtractedText)
  /\ ResultDoc.language = "hi"

\* the call was given a file and no sample id
FileOnly == FileSupplied /\ ~SampleMode

HasAnyDigit(t) == \E i \in 1..Len(t) : IsDigit(CharAt(t, i))
HasPartyCue(t) == includes(toLowerCase(t), "lessor") \/ includes(toLowerCase(t), "lessee")
HasObligationCue(t) ==
  \E w \in {"shall", "must", "agree", "responsible", "warrant"} : includes(toLowerCase(t), w)
HasNoteCue(t) ==
  \E w \in {"auto-renew", "autorenew", "indemnif", "late fee"} : includes(toLowerCase(t), w)

\* C13: analyzeDocument given a file never raises, and the facts the text of the file
\* has no cue for come out as defaults: the generic party pair, no effectiveDate, no
\* obligations, no notes.
C13_FileDegradesToDefaults ==
  /\ FileOnly => pc # "rejected"
  /\ FileResult =>
       /\ ~HasPartyCue(ExtractedText) => ResultDoc.parties = GenericPair
       /\ ~HasAnyDigit(ExtractedText) => ResultDoc.effectiveDate = None
       /\ ~HasObligationCue(ExtractedText) => ResultDoc.obligations = <<>>
       /\ ~HasNoteCue(ExtractedText) => ResultDoc.notes = <<>>

\* C14: when the backend's analysis call fails or answers with an error while an
\* uploaded file is processed, handleProcess still ends with an analysis and shows no
\* failure to the user.
C14_AnalysisFailureRecovered ==
  [][(panelPc = "analyzeDocument" /\ panelPc' = "idle")
       => (toast' # Some("Error") /\ analysis' # None)]_vars

\* C15: no analysis shares mutable state with another: whatever a caller did to the
\* document of an earlier result, a call for a sample returns the sample as stored.
C15_ResultsIndependent ==
  pc = "resolved" /\ KnownSample => ResultDoc = SampleStore[input.sampleId[1]]

\* the clause text after the four replacements of simplifyText
Replaced(t) ==
  replaceWord(replaceWord(replaceWord(replaceWord(t,
    "hereinafter", "from now on"), "indemnify", "cover costs for"),
    "notwithstanding", "despite"), "force majeure", "events beyond control")

\* C16: simplifiedText ends in the ellipsis marker exactly when the text after the
\* replacements is longer than 260 characters and was cut; otherwise it is the whole
\* replaced text with no marker.
C16_MarkerIffTruncated ==
  FileResult =>
    \A k \in 1..Len(ResultDoc.clauses) :
      LET r == Replaced(ResultDoc.clauses[k].originalText)
      IN ResultDoc.clauses[k].simplifiedText =
           IF Len(r) > SimplifiedMax THEN slice0(r, SimplifiedMax) \o Ellipsis ELSE r

\* the categories in their priority, each with its keywords
CategoryPriority ==
  <<[category |-> "Financial", words |-> {"payment", "fee", "rent", "penalty"}],
    [category |-> "Termination", words |-> {"terminate", "termination"}],
    [category |-> "Legal", words |-> {"law", "jurisdiction", "liability", "arbitration"}],
    [category |-> "Compliance", words |-> {"compliance", "regulation", "confidential"}]>>

\* the categories some keyword of which occurs in the text, in any letter case
CategoriesMentioned(t) ==
  {k \in 1..Len(CategoryPriority) : \E w \in CategoryPriority[k].words : includes(toLowerCase(t), w)}

\* C17: the category of a clause is the first in the priority Financial, Termination,
\* Legal, Compliance of which a keyword occurs in the lower-cased clause text, and
\* General when none occurs.
C17_CategoryByPriority ==
  FileResult =>
    \A k \in 1..Len(ResultDoc.clauses) :
      LET hits == CategoriesMentioned(ResultDoc.clauses[k].originalText)
      IN ResultDoc.clauses[k].category =
           IF hits = {} THEN "General" ELSE CategoryPriority[Min(hits)].category

\* a clause with a Financial and a Termination keyword came out Financial
C17_FinancialBeatsTermination ==
  /\ FileResult
  /\ \E k \in 1..Len(ResultDoc.clauses) :
       /\ {1, 2} \subseteq CategoriesMentioned(ResultDoc.clauses[k].originalText)
       /\ ResultDoc.clauses[k].category = "Financial"

\* some term of the table occurs in the text, in any letter case
MentionsTerm(t, terms) == \E k \in 1..Len(terms) : includes(toLowerCase(t), terms[k])

\* C18: the riskLevel of a clause is High when its lower-cased text contains a HIGH
\* term, otherwise Medium when it contains a MEDIUM term, otherwise Low, whatever its
\* category.
C18_RiskByTerms ==
  FileResult =>
    \A k \in 1..Len(ResultDoc.clauses) :
      LET t == ResultDoc.clauses[k].originalText
      IN ResultDoc.clauses[k].riskLevel =
           IF MentionsTerm(t, HIGH_RISK_TERMS) THEN "High"
           ELSE IF MentionsTerm(t, MEDIUM_RISK_TERMS) THEN "Medium"
           ELSE "Low"

\* a clause with a HIGH and a MEDIUM term came out High
C18_HighBeatsMedium ==
  /\ FileResult
  /\ \E k \in 1..Len(ResultDoc.clauses) :
       /\ MentionsTerm(ResultDoc.clauses[k].originalText, HIGH_RISK_TERMS)
       /\ MentionsTerm(ResultDoc.clauses[k].originalText, MEDIUM_RISK_TERMS)
       /\ ResultDoc.clauses[k].riskLevel = "High"

\* the clauses of the document that have the category
ClausesOf(d, cat) ==
  {k \in 1..Len(d.clauses) : HasField(d.clauses[k], "category") /\ d.clauses[k].category = cat}

\* how many of the clauses have the risk level
CountLevel(d, ks, level) ==
  Cardinality({k \in ks : HasField(d.clauses[k], "riskLevel") /\ d.clauses[k].riskLevel = level})

\* the sum of the weights of the clauses: High 85, Medium 55, Low (or no level) 20
TotalWeight(d, ks) ==
  85 * CountLevel(d, ks, "High") + 55 * CountLevel(d, ks, "Medium")
  + 20 * (Cardinality(ks) - CountLevel(d, ks, "High") - CountLevel(d, ks, "Medium"))

\* C19: the score of a category is 10 when the document has no clause of it, and
\* otherwise the mean of the weights of its clauses rounded to the nearest integer,
\* halves up: the integer s with mean - 1/2 < s <= mean + 1/2; so it is 10 or in 20..85.
C19_ScoreIsRoundedMean ==
  result # None =>
    \A i \in 1..Len(ScoredCategories) :
      LET ks == ClausesOf(ResultDoc, ScoredCategories[i])
          n == Cardinality(ks)
          total == TotalWeight(ResultDoc, ks)
          s == result[1].risks.byCategory[i].score
      IN /\ n = 0 => s = 10
         /\ n > 0 => 2 * n * s <= 2 * total + n /\ 2 * n * s > 2 * total - n
         /\ s = 10 \/ s \in 20..85

\* the Financial clauses are one High and one Low: the mean 52.5 came out as 53
C19_HalfRoundedUp ==
  /\ result # None
  /\ LET ks == ClausesOf(ResultDoc, "Financial")
     IN Cardinality(ks) = 2 /\ TotalWeight(ResultDoc, ks) = 105
  /\ result[1].risks.byCategory[1].score = 53

\* the clause takes part in scoring: it has one of the four scored categories
IsScored(c) ==
  HasField(c, "category") /\ c.category \in {"Financial", "Legal", "Compliance", "Termination"}

IsUnscored(c) == ~IsScored(c)

\* the risk level of every General or uncategorised clause changed to the level
WithUnscoredLevel(d, level) ==
  [d EXCEPT !.clauses =
     [k \in 1..Len(d.clauses) |->
        IF IsScored(d.clauses[k]) THEN d.clauses[k]
        ELSE [f \in DOMAIN d.clauses[k] \cup {"riskLevel"} |->
                IF f = "riskLevel" THEN level ELSE d.clauses[k][f]]]]

\* C20: General and uncategorised clauses take no part in scoring: the scores are
\* those of the document without them and of the document with their risk levels
\* changed, the score of a category is that of the document reduced to the clauses of
\* the category, and a document with only such clauses scores 10 four times.
C20_GeneralNotScored ==
  result # None =>
    LET d == ResultDoc
        scores == result[1].risks.byCategory
    IN /\ scores = computeRisk([d EXCEPT !.clauses = SelectSeq(d.clauses, IsScored)]).byCategory
       /\ \A level \in RiskLevels : scores = computeRisk(WithUnscoredLevel(d, level)).byCategory
       /\ \A i \in 1..Len(ScoredCategories) :
            LET OfCategory(c) == HasField(c, "category") /\ c.category = ScoredCategories[i]
            IN scores[i].score =
                 computeRisk([d EXCEPT !.clauses = SelectSeq(d.clauses, OfCategory)]).byCategory[i].score
       /\ (\A k \in 1..Len(d.clauses) : IsUnscored(d.clauses[k]))
            => \A i \in 1..Len(ScoredCategories) : scores[i].score = 10

\* a document of General and uncategorised clauses only, one of them High, scored 10
\* in all four categories
C20_OnlyGeneralAllTen ==
  /\ result # None
  /\ Len(ResultDoc.clauses) > 1
  /\ \A k \in 1..Len(ResultDoc.clauses) : IsUnscored(ResultDoc.clauses[k])
  /\ \E k \in 1..Len(ResultDoc.clauses) :
       HasField(ResultDoc.clauses[k], "riskLevel") /\ ResultDoc.clauses[k].riskLevel = "High"
  /\ \E k \in 1..Len(ResultDoc.clauses) : ~HasField(ResultDoc.clauses[k], "category")
  /\ \A i \in 1..Len(ScoredCategories) : result[1].risks.byCategory[i].score = 10

\* C21: the clauses of a file analysis are the first 8 of the non-empty trimmed
\* fragments of the text, in their order, the clause at position i with id c-i and
\* title Clause i; the obligations are the first 6 matching lines, in their order.
C21_PrefixInDocumentOrder ==
  FileResult =>
    LET fragments == filterNonEmpty(mapTrim(split(AnalysedText, "clause")))
        lines == filterObligations(filterNonEmpty(split(AnalysedText, "obligation")))
        cs == ResultDoc.clauses
    IN /\ Len(cs) = Min({8, Len(fragments)})
       /\ \A i \in 1..Len(cs) :
            /\ cs[i].originalText = fragments[i]
            /\ cs[i].id = <<"c-", i>>
            /\ cs[i].title = <<"Clause ", i>>
       /\ ResultDoc.obligations = SubSeq(lines, 1, Min({6, Len(lines)}))

\* of nine paragraphs the eighth is the last clause and the sixth the last obligation
C21_NinthFragmentDropped ==
  /\ FileResult
  /\ AnalysedText = NineParagraphs
  /\ ResultDoc.clauses[8].originalText = "P8 shall"
  /\ ResultDoc.clauses[8].id = <<"c-", 8>>
  /\ ResultDoc.obligations[6] = "P6 shall"

AutoRenewNote == "Auto-renew detected. Consider calendar reminders."
LateFeeNote == "Late fee present. Review payment schedules."

\* the strings of the array
ElementsOf(arr) == {arr[k] : k \in 1..Len(arr)}

\* C22 as stated: for a text containing auto-renew the notes include the auto-renew
\* reminder and every clause containing auto-renew has riskLevel Medium.
C22_AutoRenewMedium ==
  FileResult /\ includes(ExtractedText, "auto-renew") =>
    /\ AutoRenewNote \in ElementsOf(ResultDoc.notes)
    /\ \A k \in 1..Len(ResultDoc.clauses) :
         includes(ResultDoc.clauses[k].originalText, "auto-renew")
           => ResultDoc.clauses[k].riskLevel = "Medium"

\* C22 amended: for a text containing auto-renew (in any letter case) the notes
\* include the auto-renew reminder, and a returned clause containing auto-renew has
\* riskLevel High when it also contains a HIGH term and Medium otherwise.
C22_AutoRenewNoteAndRisk ==
  FileResult /\ includes(toLowerCase(ExtractedText), "auto-renew") =>
    /\ AutoRenewNote \in ElementsOf(ResultDoc.notes)
    /\ \A k \in 1..Len(ResultDoc.clauses) :
         LET t == ResultDoc.clauses[k].originalText
         IN includes(toLowerCase(t), "auto-renew")
              => ResultDoc.clauses[k].riskLevel =
                   IF MentionsTerm(t, HIGH_RISK_TERMS) THEN "High" ELSE "Medium"

\* a clause with auto-renew and no HIGH term came out Medium, with the reminder noted
C22_AutoRenewAlone ==
  /\ FileResult
  /\ AnalysedText = "This lease shall auto-renew every year."
  /\ ResultDoc.clauses[1].riskLevel = "Medium"
  /\ ResultDoc.notes = <<AutoRenewNote>>

\* the text has the cues of the lease scenario: Lessor, Lessee, indemnify,
\* arbitration and the date 2025-01-01
HasLeaseCues(t) ==
  /\ \A w \in {"lessor", "lessee", "indemnify", "arbitration"} : includes(toLowerCase(t), w)
  /\ includes(t, "2025-01-01")

\* no digit stands before the first occurrence of the date in the text
IsFirstDate(t, date) ==
  LET at == Min({i \in 1..Len(t) : StartsAt(t, i, date)})
  IN \A i \in 1..(at - 1) : ~IsDigit(CharAt(t, i))

HasNoCue(t) ==
  /\ ~HasPartyCue(t)
  /\ ~HasAnyDigit(t)
  /\ CategoriesMentioned(t) = {}
  /\ ~MentionsTerm(t, HIGH_RISK_TERMS)
  /\ ~MentionsTerm(t, MEDIUM_RISK_TERMS)
  /\ ~HasNoteCue(t)

\* C24: for a text with no recognized cue the parties are PartyA and PartyB, there is
\* no effectiveDate, every clause is General and Low, the four scores are 10, and the
\* recommendations contain the missing-date one, the fallback being there only alone.
C24_PlainText ==
  FileResult /\ HasNoCue(ExtractedText) =>
    LET recs == result[1].risks.recommendations
    IN /\ ResultDoc.parties = GenericPair
       /\ ResultDoc.effectiveDate = None
       /\ \A k \in 1..Len(ResultDoc.clauses) :
            ResultDoc.clauses[k].category = "General" /\ ResultDoc.clauses[k].riskLevel = "Low"
       /\ \A i \in 1..Len(ScoredCategories) : result[1].risks.byCategory[i].score = 10
       /\ RecMissingDate \in ElementsOf(recs)
       /\ RecFallback \in ElementsOf(recs) => recs = <<RecFallback>>

\* a paragraph of plain words was analysed: the only recommendation is the
\* missing-date one
C24_PlainWords ==
  /\ FileResult
  /\ ExtractedText = "plain words \n\n"
  /\ Len(ResultDoc.clauses) = 1
  /\ result[1].risks.recommendations = <<RecMissingDate>>

\* C25: when the recommendations are the fallback alone, no clause of the document
\* is High and no category score reaches 85.
C25_FallbackMeansNoHighRisk ==
  pc = "resolved" /\ result[1].risks.recommendations = <<RecFallback>> =>
    /\ \A k \in 1..Len(ResultDoc.clauses) : ResultDoc.clauses[k].riskLevel # "High"
    /\ \A i \in 1..Len(ScoredCategories) : result[1].risks.byCategory[i].score < 85

\* C26: in a file analysis, when the notes contain the late-fee note, the
\* recommendations contain the financial-penalties one and some clause is High.
C26_LateFeeNoteAndRecommendation ==
  FileResult /\ LateFeeNote \in ElementsOf(ResultDoc.notes) =>
    /\ RecPenalties \in ElementsOf(result[1].risks.recommendations)
    /\ \E k \in 1..Len(ResultDoc.clauses) : ResultDoc.clauses[k].riskLevel = "High"

\* the list is made of (user, assistant) pairs
PairsOnly ==
  /\ Len(messages) % 2 = 0
  /\ \A i \in 1..Len(messages) : messages[i].role = (IF i % 2 = 1 THEN "user" ELSE "assistant")

\* the step appends exactly the pair (user u, some assistant message)
AppendsPairOf(u) ==
  /\ Len(messages') = Len(messages) + 2
  /\ SubSeq(messages', 1, Len(messages)) = messages
  /\ messages'[Len(messages) + 1] = Msg("user", u)
  /\ messages'[Len(messages) + 2].role = "assistant"

\* the step is the end of a submission
SubmissionEnds ==
  \/ chatCall # None /\ chatCall' = None
  \/ chatVariant = "direct" /\ inputValue # "" /\ inputValue' = ""

\* the question of the submission that ends
SubmittedQuestion == IF chatVariant = "direct" THEN trim(inputValue) ELSE chatCall[1].q

\* C27: in every reachable state the message list of the chat panel is a sequence of
\* (user, assistant) pairs, of even length, with roles alternating from user, however
\* submissions that still await their answer interleave with clicks on the example
\* buttons; the list changes only by one pair at a time, which is the pair of a
\* submitted non-empty question or the pair of an example, every submission of a
\* non-empty question that ends adds its pair, and an empty question adds nothing
C27_MessagesArePairs ==
  /\ [](PairsOnly /\ (chatCall # None => chatCall[1].q # ""))
  /\ [][/\ SubmissionEnds => SubmittedQuestion # "" /\ AppendsPairOf(SubmittedQuestion)
        /\ messages' # messages /\ ~SubmissionEnds =>
             \E i \in 1..3 : messages' = messages \o <<Msg("user", examples[i].q),
                                                       Msg("assistant", examples[i].a)>>]_vars

\* C27 witness: a submitted question awaits its answer while the list already holds
\* the pair of the second example
C27_ExampleWhilePending ==
  /\ chatCall # None
  /\ Len(messages) = 2
  /\ messages[1].content = examples[2].q

\* C30: once a file has been uploaded and analysed (the upload panel holds a document
\* id and has shown Success), a question sent in the chat panel is put to the backend
\* askQuestion for that document id, and it is answered from the canned examples, the
\* clauses or the summary only when no document has been uploaded
C30_UploadedDocumentAskedAtBackend ==
  [][chatVariant = "await" /\ chatCall = None /\ chatCall' # None
       => IF currentDocumentId # None /\ toast = Some("Success")
            THEN chatCall'[1].document_id = currentDocumentId /\ chatCall'[1].a = None
            ELSE chatCall'[1].a # None]_vars

C29_SettlesAsProcessEnds ==
  /\ promise[1] = "resolved" => child = <<"closed", Some(0)>> /\ promise[2] = trim(output)
  /\ child[1] = "closed" /\ child # <<"closed", Some(0)>>
       => promise = <<"rejected", "Python script failed: " \o errorOutput>>
  /\ child = <<"closed", Some(0)>> => promise[1] = "resolved"
  /\ child = <<"failed">> => promise[1] = "rejected"
  /\ child \in {<<"spawned">>, <<"running">>} => promise = <<"pending">>

====
